---------------------------- MODULE Spec2Model ----------------------------
(***************************************************************************)
(* Timeline composition of the "guess the actor" video generator.         *)
(*                                                                         *)
(* Five specifications share this module:                                  *)
(*   Spec          the render job, create_tiktok_from_json (src/main.py)   *)
(*   SpecCard      the card builders create_title_card and                 *)
(*                 create_answer_clip applied to every nominal duration    *)
(*                 and voice-over outcome                                  *)
(*   SpecAnim      the geometry of one reveal segment: grid cells, cover   *)
(*                 fit, resize_func and position_func sampled over time    *)
(*   SpecResolver  the poster and headshot resolvers and the files they    *)
(*                 keep at their save paths                                *)
(*   SpecSurface   one POST /create_tiktok_video request of the web        *)
(*                 surface (src/web_gui/app.py)                            *)
(*                                                                         *)
(* Time is counted in ticks of half a second, so that the 1.5 s phases of  *)
(* the reveal segment are whole numbers.                                   *)
(***************************************************************************)
EXTENDS Integers, Sequences, FiniteSets, TLC

VARIABLES
    data,                \* the manifest loaded from json_file_path
    pc,                  \* position of the render job in create_tiktok_from_json
    item_idx,            \* position of the for loop over data.items()
    eleven_labs_client,  \* TRUE when the job holds an ElevenLabsClient object
    voice_init,          \* how the initialisation of the voice-overs ended
    clips,               \* the list of top-level segments
    current_time,        \* the duration cursor of create_tiktok_from_json
    final_video,         \* the concatenated program handed to the encoder
    written,             \* TRUE once write_videofile has been called
    error,               \* the exception that ended the render job, or "none"
    card,                \* SpecCard: the last card built and its inputs
    anim,                \* SpecAnim: one image of a reveal segment, at time t
    resolver,            \* SpecResolver: the asset resolvers and their files
    surface,             \* SpecSurface: one /create_tiktok_video request
    storage,             \* SpecStorage: a B2StorageClient, its bucket, the disk
    server,              \* SpecServer: the process serving requests side by side
    generator,           \* SpecGenerator: one /generate_manifest request
    recommender          \* SpecRecommender: one _sort_and_filter_movies call

vars == <<data, pc, item_idx, eleven_labs_client, voice_init, clips,
          current_time, final_video, written, error, card, anim, resolver,
          surface, storage, server, generator, recommender>>

renderVars == <<data, pc, item_idx, eleven_labs_client, voice_init, clips,
                current_time, final_video, written, error>>

serviceVars == <<storage, server, generator, recommender>>

-----------------------------------------------------------------------------
(* Bounds of the model *)

MaxHints == 3

MaxVoiceTicks == 13

-----------------------------------------------------------------------------
(* Time *)

SecondsToTicks(s) == 2 * s

Min(a, b) == IF a < b THEN a ELSE b

Max(a, b) == IF a > b THEN a ELSE b

RECURSIVE SumDurations(_)
SumDurations(s) ==
    IF s = <<>> THEN 0 ELSE s[1].duration + SumDurations(Tail(s))

-----------------------------------------------------------------------------
(* Voice-over audio *)

\* What generate_voice_over returned and what the file system holds there:
\* path = FALSE is None; exists is os.path.exists(path); loads is whether
\* AudioFileClip(path) succeeds; duration is the clip's measured duration.
VoiceOver(path, exists, loads, duration) ==
    [path |-> path, exists |-> exists, loads |-> loads, duration |-> duration]

NoVoiceOver == VoiceOver(FALSE, FALSE, FALSE, 0)

NoAudio == [has |-> FALSE, duration |-> 0]

Audio(d) == [has |-> TRUE, duration |-> d]

\* The outcomes of generate_voice_over: None when there is no client or the
\* synthesis raised, else the path of the file text_to_speech wrote.
generate_voice_over(client, durations) ==
    IF ~client THEN {NoVoiceOver}
    ELSE {NoVoiceOver} \cup {VoiceOver(TRUE, TRUE, TRUE, d) : d \in durations}

Element(kind, i, start, duration) ==
    [kind |-> kind, i |-> i, start |-> start, duration |-> duration]

AttachVoiceOverUnchecked(duration, vo) ==
    IF vo.duration > duration
    THEN [duration |-> vo.duration, audio |-> Audio(vo.duration)]
    ELSE [duration |-> duration, audio |-> Audio(duration)]

AttachVoiceOverTruncating(duration, vo) ==
    IF vo.path /\ vo.exists /\ vo.loads
    THEN [duration |-> duration, audio |-> Audio(duration)]
    ELSE [duration |-> duration, audio |-> NoAudio]

\* The voice-over block shared by create_title_card and create_answer_clip:
\* the card's duration and audio after it. A clip that fails to load
\* raises inside the try block and leaves the card as it was.
AttachVoiceOver(duration, vo) ==
    IF vo.path /\ vo.exists /\ vo.loads
    THEN IF vo.duration > duration
         THEN [duration |-> vo.duration, audio |-> Audio(vo.duration)]
         ELSE [duration |-> duration, audio |-> Audio(duration)]
    ELSE [duration |-> duration, audio |-> NoAudio]

create_title_card(kind, duration, vo) ==
    LET r == AttachVoiceOver(duration, vo)
    IN  [kind |-> kind, duration |-> r.duration, audio |-> r.audio,
         elems |-> << Element("bg", 0, 0, duration),
                      Element("text", 0, 0, duration) >>,
         posters |-> <<>>, vo |-> vo]

create_answer_clip(duration, vo) ==
    LET r == AttachVoiceOver(duration, vo)
    IN  [kind |-> "answer", duration |-> r.duration, audio |-> r.audio,
         elems |-> << Element("bg", 0, 0, duration),
                      Element("text", 0, 0, duration),
                      Element("headshot", 0, 0, duration) >>,
         posters |-> <<>>, vo |-> vo]

-----------------------------------------------------------------------------
(* The three-item reveal segment, create_column_animation_clip *)

\* 5 seconds for the title plus 4 seconds per movie
target_duration(movies) == SecondsToTicks(5) + Len(movies) * SecondsToTicks(4)

\* with_duration(1.5) of the fullscreen clip
FullscreenDuration == SecondsToTicks(3) \div 2

TransitionOffsetLate == SecondsToTicks(2)

\* the transition clip starts at current_time + 1.5
TransitionOffset == SecondsToTicks(3) \div 2

\* with_duration(1.5) of the transition clip
TransitionDuration == SecondsToTicks(3) \div 2

\* the static clip starts at current_time + 3.0
StaticOffset == SecondsToTicks(3)

PerImageAdvanceThree == SecondsToTicks(3)

\* current_time += 4.0 at the end of each iteration
PerImageAdvance == SecondsToTicks(4)

\* (3 - i) * 3.0 + 3.0
StaticClipDuration(i) == (3 - i) * SecondsToTicks(3) + SecondsToTicks(3)

KeepsStaticClipExceptLast(i) == i < 2

\* "if i < 3": the guard of the static clip
KeepsStaticClip(i) == i < 3

\* for i, movie in enumerate(movies): the elements appended for image i and
\* the images after it, and the cursor after the loop
RECURSIVE ImageLoop(_, _, _, _)
ImageLoop(i, n, cur, els) ==
    IF i = n THEN [current_time |-> cur, clips |-> els]
    ELSE LET fullscreen_clip == Element("fullscreen", i, cur, FullscreenDuration)
             transition_clip == Element("transition", i, cur + TransitionOffset,
                                         TransitionDuration)
             final_clip == Element("final", i, cur + StaticOffset,
                                    StaticClipDuration(i))
             shown == els \o <<fullscreen_clip, transition_clip>>
         IN  ImageLoop(i + 1, n, cur + PerImageAdvance,
                       IF KeepsStaticClip(i) THEN Append(shown, final_clip)
                                             ELSE shown)

\* Called with exactly 3 movies (any other count raises ValueError before
\* anything is built); vo is the caption's voice-over.
create_column_animation_clip(vo, movies) ==
    LET title_clip == create_title_card("caption", SecondsToTicks(5), vo)
        bg_clip == Element("bg", 0, 0, target_duration(movies))
        loop == ImageLoop(0, Len(movies), title_clip.duration,
                          << bg_clip,
                             Element("title", 0, 0, title_clip.duration) >>)
    IN  [kind |-> "hint", duration |-> loop.current_time,
         audio |-> title_clip.audio, elems |-> loop.clips,
         posters |-> movies, vo |-> vo]

-----------------------------------------------------------------------------
(* The manifest: an ordered mapping, a sequence of (key, value) items *)

Item(key, val) == [key |-> key, val |-> val]

\* The shape of a manifest value, as far as the interpreter inspects it
Value(is_dict, truthy, has_caption, has_movies, movies, has_image_path) ==
    [is_dict |-> is_dict, truthy |-> truthy, has_caption |-> has_caption,
     has_movies |-> has_movies, movies |-> movies,
     has_image_path |-> has_image_path]

Scalar(truthy) == Value(FALSE, truthy, FALSE, FALSE, <<>>, FALSE)

\* A movie entry with the fields a manifest may give it
MovieRef(is_dict, has_title, has_imdb_url, has_poster_path) ==
    [is_dict |-> is_dict, has_title |-> has_title,
     has_imdb_url |-> has_imdb_url, has_poster_path |-> has_poster_path]

MovieDatum(is_dict, has_title, has_poster_path) ==
    MovieRef(is_dict, has_title, FALSE, has_poster_path)

HintValue(movies) == Value(TRUE, TRUE, TRUE, TRUE, movies, FALSE)

AnswerValue(has_image_path) ==
    Value(TRUE, TRUE, TRUE, FALSE, <<>>, has_image_path)

Titled(has_poster_path) == MovieDatum(TRUE, TRUE, has_poster_path)

\* A hint entry with all three poster paths given
PlainHint == HintValue(<<Titled(TRUE), Titled(TRUE), Titled(TRUE)>>)

\* The other hint values of the model: one poster to resolve, a movie given
\* by its imdb_url alone, and four malformed entries (two movies, a movie
\* without title and imdb_url, no caption, not a mapping)
OtherHintValues ==
    { HintValue(<<Titled(TRUE), Titled(TRUE), Titled(FALSE)>>),
      HintValue(<<Titled(TRUE), Titled(TRUE)>>),
      HintValue(<<Titled(TRUE), MovieDatum(TRUE, FALSE, TRUE), Titled(TRUE)>>),
      HintValue(<<Titled(TRUE), MovieRef(TRUE, FALSE, TRUE, FALSE),
                  Titled(TRUE)>>),
      Value(TRUE, TRUE, FALSE, TRUE,
            <<Titled(TRUE), Titled(TRUE), Titled(TRUE)>>, FALSE),
      Scalar(TRUE) }

\* Up to MaxHints plain hint entries
PlainHintLists == { [k \in 1..n |-> PlainHint] : n \in 0..MaxHints }

\* The hint entries of the manifests of the model, in manifest order: up to
\* MaxHints entries, at most one of them not a PlainHint
HintLists ==
    PlainHintLists
    \cup { [k \in 1..nj[1] |-> IF k = nj[2] THEN v ELSE PlainHint] :
             nj \in {x \in (1..MaxHints) \X (1..MaxHints) : x[2] <= x[1]},
             v \in OtherHintValues }

KeyAnswer == <<"a", "n", "s", "w", "e", "r">>

KeyVoice ==
    <<"e", "n", "a", "b", "l", "e", "_", "v", "o", "i", "c", "e", "_", "o", "v", "e", "r", "s">>

KeyBgAudio ==
    <<"b", "a", "c", "k", "g", "r", "o", "u", "n", "d", "_", "a", "u", "d", "i", "o">>

KeyBgVideo ==
    <<"b", "a", "c", "k", "g", "r", "o", "u", "n", "d", "_", "v", "i", "d", "e", "o">>

KeyTmdbApiKey ==
    <<"t", "m", "d", "b", "_", "a", "p", "i", "_", "k", "e", "y">>

\* The key of the n-th hint entry: "hint_", "xHiNT__", "hint___", ...
HintKey(n) ==
    (IF n % 2 = 1 THEN <<"h", "i", "n", "t">> ELSE <<"x", "H", "i", "N", "T">>)
    \o [j \in 1..n |-> "_"]

LowerChar(c) ==
    CASE c = "H" -> "h" [] c = "I" -> "i" [] c = "N" -> "n" [] c = "T" -> "t"
      [] c = "A" -> "a" [] c = "B" -> "b" [] c = "U" -> "u"
      [] OTHER -> c

\* key.lower()
Lower(key) == [j \in 1..Len(key) |-> LowerChar(key[j])]

\* sub in s
Contains(s, sub) ==
    \E k \in 0..(Len(s) - Len(sub)) : \A j \in 1..Len(sub) : s[k + j] = sub[j]

IsHintKeyCaseSensitive(key) == Contains(key, <<"h", "i", "n", "t">>)

IsHintKeyLoose(key) == Contains(Lower(key), <<"i">>)

\* "hint" in key.lower()
IsHintKey(key) == Contains(Lower(key), <<"h", "i", "n", "t">>)

Has(d, key) == \E j \in 1..Len(d) : d[j].key = key

Lookup(d, key) == d[CHOOSE j \in 1..Len(d) : d[j].key = key].val

AnswerOptions == {"image_path", "no_image_path", "missing"}

\* The background entry a manifest may lack
AbsentOptions == {"none", "background_audio", "background_video"}

\* A manifest of the web surface: the voice-over switch and an API-key
\* field, the hint entries, the answer, the two background entries
Manifest(hints, answer, voice, absent) ==
    << Item(KeyVoice, Scalar(voice)), Item(KeyTmdbApiKey, Scalar(TRUE)) >>
    \o [n \in 1..Len(hints) |-> Item(HintKey(n), hints[n])]
    \o (IF answer = "missing" THEN <<>>
        ELSE << Item(KeyAnswer, AnswerValue(answer = "image_path")) >>)
    \o (IF absent = "background_audio" THEN <<>>
        ELSE << Item(KeyBgAudio, Scalar(TRUE)) >>)
    \o (IF absent = "background_video" THEN <<>>
        ELSE << Item(KeyBgVideo, Scalar(TRUE)) >>)

\* The manifests of the model: every hint list with every answer and voice
\* switch, and manifests of plain hints lacking one background entry
Manifests ==
    { Manifest(h, a, v, "none") :
        h \in HintLists, a \in AnswerOptions, v \in BOOLEAN }
    \cup { Manifest(h, "image_path", v, x) :
             h \in PlainHintLists, v \in BOOLEAN, x \in AbsentOptions }

ValidHintAnyLength(hint) ==
    /\ hint.is_dict /\ hint.has_caption /\ hint.has_movies
    /\ \A j \in 1..Len(hint.movies) :
          hint.movies[j].is_dict /\ hint.movies[j].has_title

\* The checks of one hint entry: a mapping with caption and movies, exactly
\* 3 movie entries, each a mapping with a title
ValidHint(hint) ==
    /\ hint.is_dict /\ hint.has_caption /\ hint.has_movies
    /\ Len(hint.movies) = 3
    /\ \A j \in 1..Len(hint.movies) :
          hint.movies[j].is_dict /\ hint.movies[j].has_title

\* What download_movie_poster does for each movie: it is not called for a
\* movie whose poster_path is given, and returns a path or raises otherwise
PosterDownloads(movie_data) ==
    { d \in [1..Len(movie_data) -> {"not_called", "returns", "raises"}] :
        \A j \in 1..Len(movie_data) :
            (d[j] = "not_called") <=> movie_data[j].has_poster_path }

PosterPathUncaught(movie_datum, download) ==
    IF movie_datum.has_poster_path THEN "given"
    ELSE IF download = "raises" THEN "unresolved" ELSE "resolved"

\* Lines 436-445: the poster path of a movie: the path given, the path
\* download_movie_poster returned, or the placeholder when it raised
poster_path(movie_datum, download) ==
    IF movie_datum.has_poster_path THEN "given"
    ELSE IF download = "raises" THEN "placeholder" ELSE "resolved"

\* The poster paths of the movies of a hint entry after resolution
PosterOutcomes(movie_data) ==
    { [j \in 1..Len(movie_data) |-> poster_path(movie_data[j], d[j])] :
        d \in PosterDownloads(movie_data) }

-----------------------------------------------------------------------------
(* The render job, create_tiktok_from_json *)

\* The narration lengths the render job's synthesis calls may produce
RenderVoiceTicks == {SecondsToTicks(2), MaxVoiceTicks}

AdvanceNominal(cur, clip) == cur + clip.elems[1].duration

\* current_time += clip.duration
Advance(cur, clip) == cur + clip.duration

\* concatenate_videoclips(clips, method="compose"): clip k starts where the
\* clips before it end
Starts(cs) == [k \in 1..Len(cs) |-> SumDurations(SubSeq(cs, 1, k - 1))]

NoVideo == [starts |-> <<>>, duration |-> 0, narration |-> {},
            background_audio |-> NoAudio]

IdleCard == [fn |-> "none", nominal |-> 0, clip |-> <<>>]

IdleAnim == [phase |-> "idle"]

IdleResolver == [phase |-> "idle"]

IdleSurface == [phase |-> "idle"]

IdleStorage == [phase |-> "idle"]

IdleServer == [phase |-> "idle"]

IdleGenerator == [phase |-> "idle"]

IdleRecommender == [phase |-> "idle"]

IdleServices ==
    /\ storage = IdleStorage
    /\ server = IdleServer
    /\ generator = IdleGenerator
    /\ recommender = IdleRecommender

RenderInit ==
    /\ data \in Manifests
    /\ pc = "start"
    /\ item_idx = 1
    /\ eleven_labs_client = FALSE
    /\ voice_init = "pending"
    /\ clips = <<>>
    /\ current_time = 0
    /\ final_video = NoVideo
    /\ written = FALSE
    /\ error = "none"

Init ==
    /\ IdleServices
    /\ RenderInit
    /\ card = IdleCard
    /\ anim = IdleAnim
    /\ resolver = IdleResolver
    /\ surface = IdleSurface

\* A manifest whose images are all given, with voice-overs enabled
GivenImagesManifests ==
    { Manifest(h, "image_path", TRUE, "none") : h \in PlainHintLists }

\* How lines 376-393 can end: voice-overs are not enabled, the API key is
\* not set, the constructor of the client raises, the test synthesis
\* raises, or both succeed. The two exceptions are drawn for the manifests
\* whose images are all given.
VoiceInitOutcomes(d) ==
    IF ~Lookup(d, KeyVoice).truthy THEN {"disabled"}
    ELSE IF d \in GivenImagesManifests
         THEN {"no_key", "constructor_raised", "test_raised", "ok"}
         ELSE {"no_key", "ok"}

\* eleven_labs_client is assigned when the constructor returns, before the
\* test synthesis
ClientBound(outcome) == outcome \in {"test_raised", "ok"}

\* Lines 364-398: the clients and the background video. The client object
\* is bound before the test synthesis, so it stays bound when the test
\* synthesis raises; only a missing key or a raising constructor leaves it
\* None.
InitVoiceOvers ==
    /\ pc = "start"
    /\ Has(data, KeyBgVideo)
    /\ \E outcome \in VoiceInitOutcomes(data) :
          /\ voice_init' = outcome
          /\ eleven_labs_client' = ClientBound(outcome)
    /\ pc' = "intro"
    /\ UNCHANGED <<data, item_idx, clips, current_time, final_video, written,
                   error, card, anim, resolver, surface, serviceVars>>

\* Line 396: data["background_video"] raises KeyError when the entry is
\* missing, before any segment is built
FailBackgroundVideo ==
    /\ pc = "start"
    /\ ~Has(data, KeyBgVideo)
    /\ pc' = "failed"
    /\ error' = "KeyError"
    /\ UNCHANGED <<data, item_idx, eleven_labs_client, voice_init, clips,
                   current_time, final_video, written, card, anim, resolver,
                   surface, serviceVars>>

\* Lines 403-415
AppendIntro ==
    /\ pc = "intro"
    /\ \E vo \in generate_voice_over(eleven_labs_client, RenderVoiceTicks) :
          LET title_clip == create_title_card("intro", SecondsToTicks(5), vo)
          IN  /\ clips' = Append(clips, title_clip)
              /\ current_time' = Advance(current_time, title_clip)
    /\ pc' = "items"
    /\ UNCHANGED <<data, item_idx, eleven_labs_client, voice_init,
                   final_video, written, error, card, anim, resolver, surface,
                   serviceVars>>

\* Lines 416-418: a key without "hint" is passed over
SkipItem ==
    /\ pc = "items"
    /\ item_idx <= Len(data)
    /\ ~IsHintKey(data[item_idx].key)
    /\ item_idx' = item_idx + 1
    /\ UNCHANGED <<data, pc, eleven_labs_client, voice_init, clips,
                   current_time, final_video, written, error, card, anim,
                   resolver, surface, serviceVars>>

\* Lines 420-434: a malformed hint entry raises ValueError
RejectHint ==
    /\ pc = "items"
    /\ item_idx <= Len(data)
    /\ IsHintKey(data[item_idx].key)
    /\ ~ValidHint(data[item_idx].val)
    /\ pc' = "failed"
    /\ error' = "ValueError"
    /\ UNCHANGED <<data, item_idx, eleven_labs_client, voice_init, clips,
                   current_time, final_video, written, card, anim, resolver,
                   surface, serviceVars>>

\* Lines 420-452: one hint entry becomes one reveal segment
AppendHint ==
    /\ pc = "items"
    /\ item_idx <= Len(data)
    /\ IsHintKey(data[item_idx].key)
    /\ ValidHint(data[item_idx].val)
    /\ \E movies \in PosterOutcomes(data[item_idx].val.movies),
          vo \in generate_voice_over(eleven_labs_client, RenderVoiceTicks) :
          LET hint_clip == create_column_animation_clip(vo, movies)
          IN  /\ clips' = Append(clips, hint_clip)
              /\ current_time' = Advance(current_time, hint_clip)
    /\ item_idx' = item_idx + 1
    /\ UNCHANGED <<data, pc, eleven_labs_client, voice_init, final_video,
                   written, error, card, anim, resolver, surface,
                   serviceVars>>

\* Lines 454-466, after the loop over the items
AppendAnswerIntro ==
    /\ pc = "items"
    /\ item_idx > Len(data)
    /\ \E vo \in generate_voice_over(eleven_labs_client, RenderVoiceTicks) :
          LET the_answer_is_clip ==
                  create_title_card("answer_intro", SecondsToTicks(3), vo)
          IN  /\ clips' = Append(clips, the_answer_is_clip)
              /\ current_time' = Advance(current_time, the_answer_is_clip)
    /\ pc' = "answer"
    /\ UNCHANGED <<data, item_idx, eleven_labs_client, voice_init,
                   final_video, written, error, card, anim, resolver, surface,
                   serviceVars>>

\* Lines 469-476: data["answer"] raises KeyError when the entry is missing;
\* download_actor_headshot is called outside any try block, so its error
\* ends the job
FailAnswer ==
    /\ pc = "answer"
    /\ \/ ~Has(data, KeyAnswer)
       \/ Has(data, KeyAnswer) /\ ~Lookup(data, KeyAnswer).has_image_path
    /\ pc' = "failed"
    /\ error' = IF Has(data, KeyAnswer) THEN "download_actor_headshot"
                                       ELSE "KeyError"
    /\ UNCHANGED <<data, item_idx, eleven_labs_client, voice_init, clips,
                   current_time, final_video, written, card, anim, resolver,
                   surface, serviceVars>>

\* Lines 468-485: the headshot is given or was resolved
AppendAnswer ==
    /\ pc = "answer"
    /\ Has(data, KeyAnswer)
    /\ \E vo \in generate_voice_over(eleven_labs_client, RenderVoiceTicks) :
          LET answer_clip == create_answer_clip(SecondsToTicks(5), vo)
          IN  /\ clips' = Append(clips, answer_clip)
              /\ current_time' = Advance(current_time, answer_clip)
    /\ pc' = "mux"
    /\ UNCHANGED <<data, item_idx, eleven_labs_client, voice_init,
                   final_video, written, error, card, anim, resolver, surface,
                   serviceVars>>

\* Lines 487-496: concatenate, set the duration to the cursor, put the
\* background audio on the program when its file exists, and encode.
\* with_audio replaces the audio of the concatenation.
WriteVideo ==
    /\ pc = "mux"
    /\ Has(data, KeyBgAudio)
    /\ \E audio_exists \in BOOLEAN :
          final_video' =
              [starts |-> Starts(clips),
               duration |-> current_time,
               narration |-> IF audio_exists THEN {}
                             ELSE {k \in 1..Len(clips) : clips[k].audio.has},
               background_audio |-> IF audio_exists THEN Audio(current_time)
                                    ELSE NoAudio]
    /\ written' = TRUE
    /\ pc' = "done"
    /\ UNCHANGED <<data, item_idx, eleven_labs_client, voice_init, clips,
                   current_time, error, card, anim, resolver, surface,
                   serviceVars>>

\* Line 490: data["background_audio"] raises KeyError when the entry is
\* missing, after the segments are concatenated and before the encoder runs
FailBackgroundAudio ==
    /\ pc = "mux"
    /\ ~Has(data, KeyBgAudio)
    /\ pc' = "failed"
    /\ error' = "KeyError"
    /\ UNCHANGED <<data, item_idx, eleven_labs_client, voice_init, clips,
                   current_time, final_video, written, card, anim, resolver,
                   surface, serviceVars>>

Next ==
    \/ InitVoiceOvers
    \/ FailBackgroundVideo
    \/ AppendIntro
    \/ SkipItem
    \/ RejectHint
    \/ AppendHint
    \/ AppendAnswerIntro
    \/ FailAnswer
    \/ AppendAnswer
    \/ WriteVideo
    \/ FailBackgroundAudio

Spec == Init /\ [][Next]_vars

-----------------------------------------------------------------------------
(* The card builders on their own *)

MaxNominalTicks == 10

NominalDurations == 1..MaxNominalTicks

\* Every voice-over a card builder can be handed: no path, a path with no
\* file, a file that does not load, a clip of each measured duration
AllVoiceOvers ==
    { NoVoiceOver, VoiceOver(TRUE, FALSE, FALSE, 0),
      VoiceOver(TRUE, TRUE, FALSE, 0) }
    \cup { VoiceOver(TRUE, TRUE, TRUE, d) : d \in 1..MaxVoiceTicks }

IdleRender ==
    /\ data = <<>>
    /\ pc = "idle"
    /\ item_idx = 1
    /\ eleven_labs_client = FALSE
    /\ voice_init = "pending"
    /\ clips = <<>>
    /\ current_time = 0
    /\ final_video = NoVideo
    /\ written = FALSE
    /\ error = "none"

CardInit ==
    /\ IdleServices
    /\ IdleRender
    /\ card = IdleCard
    /\ anim = IdleAnim
    /\ resolver = IdleResolver
    /\ surface = IdleSurface

BuildTitleCard ==
    /\ \E duration \in NominalDurations, vo \in AllVoiceOvers :
          card' = [fn |-> "create_title_card", nominal |-> duration,
                   clip |-> create_title_card("title", duration, vo)]
    /\ UNCHANGED <<renderVars, anim, resolver, surface, serviceVars>>

BuildAnswerClip ==
    /\ \E duration \in NominalDurations, vo \in AllVoiceOvers :
          card' = [fn |-> "create_answer_clip", nominal |-> duration,
                   clip |-> create_answer_clip(duration, vo)]
    /\ UNCHANGED <<renderVars, anim, resolver, surface, serviceVars>>

CardNext ==
    \/ BuildTitleCard
    \/ BuildAnswerClip

SpecCard == CardInit /\ [][CardNext]_vars

-----------------------------------------------------------------------------
(* Properties of the timeline *)

HintClips == {k \in 1..Len(clips) : clips[k].kind = "hint"}

\* The elements of a segment with the given kind and image index
ElementsOf(clip, kind, i) ==
    SelectSeq(clip.elems, LAMBDA e : e.kind = kind /\ e.i = i)

EndOf(e) == e.start + e.duration

\* The measured length of the narration a segment was built with, 0 when
\* it has none
NarrationOf(clip) ==
    IF clip.vo.path /\ clip.vo.exists /\ clip.vo.loads THEN clip.vo.duration
                                                        ELSE 0

NominalOf(kind) ==
    CASE kind = "intro" -> SecondsToTicks(5)
      [] kind = "answer_intro" -> SecondsToTicks(3)
      [] kind = "answer" -> SecondsToTicks(5)

\* The duration a segment should have: its nominal duration, raised to the
\* length of its narration; for a reveal segment the title sub-card's,
\* plus 4 seconds per image
EffectiveDuration(clip) ==
    IF clip.kind = "hint"
    THEN Max(SecondsToTicks(5), NarrationOf(clip)) + 3 * SecondsToTicks(4)
    ELSE Max(NominalOf(clip.kind), NarrationOf(clip))

RECURSIVE SumEffective(_)
SumEffective(s) ==
    IF s = <<>> THEN 0 ELSE EffectiveDuration(s[1]) + SumEffective(Tail(s))

MetadataKeys == {KeyVoice, KeyTmdbApiKey, KeyAnswer, KeyBgAudio, KeyBgVideo}

\* The number of hint entries of the manifest
HintCount == Cardinality({j \in 1..Len(data) : data[j].key \notin MetadataKeys})

\* The n-th hint entry of the manifest, in manifest order
HintEntry(n) == Lookup(data, HintKey(n))

\* C1: after each top-level segment is appended, the cursor current_time is
\* the sum of the effective (narration-extended) durations of the segments
\* appended so far; segment k of the program starts at the sum of the
\* effective durations of the segments before it, and the program's duration
\* is the sum over all of them.
C1_CursorIsSumOfEffectiveDurations ==
    /\ current_time = SumEffective(clips)
    /\ pc = "done" =>
          /\ final_video.duration = SumEffective(clips)
          /\ Len(final_video.starts) = Len(clips)
          /\ \A k \in 1..Len(clips) :
                final_video.starts[k] = SumEffective(SubSeq(clips, 1, k - 1))

\* A finished program of three hints in which a narration extended a segment
C1_Witness ==
    /\ pc = "done"
    /\ Len(clips) = 6
    /\ \E k \in 1..Len(clips) : NarrationOf(clips[k]) > SecondsToTicks(5)
    /\ current_time > SecondsToTicks(64)

\* C2: the kinds of the appended segments are always a prefix of intro,
\* hints, answer-intro, answer; a finished program has exactly N+3 segments,
\* the k-th hint segment built from the k-th hint entry of the manifest; three
\* hints without narration give 6 segments and 64 seconds.
C2_SegmentsInFixedOrder ==
    /\ \A k \in 1..Len(clips) :
          /\ (clips[k].kind = "intro") <=> (k = 1)
          /\ clips[k].kind = "hint" =>
                /\ k - 1 <= HintCount
                /\ \A j \in 2..k : clips[j].kind = "hint"
                /\ ValidHint(HintEntry(k - 1))
                /\ \A m \in 1..3 :
                      (clips[k].posters[m] = "given")
                          <=> HintEntry(k - 1).movies[m].has_poster_path
          /\ clips[k].kind = "answer_intro" => k = HintCount + 2
          /\ clips[k].kind = "answer" => k = HintCount + 3
          /\ clips[k].kind \in {"intro", "hint", "answer_intro", "answer"}
    /\ Len(clips) <= HintCount + 3
    /\ pc \in {"mux", "done"} =>
          /\ Len(clips) = HintCount + 3
          /\ \A k \in 2..(HintCount + 1) : clips[k].kind = "hint"
          /\ clips[HintCount + 2].kind = "answer_intro"
          /\ clips[HintCount + 3].kind = "answer"
    /\ (pc = "done" /\ HintCount = 3
            /\ \A k \in 1..Len(clips) : NarrationOf(clips[k]) = 0) =>
          /\ Len(clips) = 6
          /\ final_video.duration = SecondsToTicks(64)

\* A finished program of three hints, the second and third of different
\* shape, without narration
C2_Witness ==
    /\ pc = "done"
    /\ HintCount = 3
    /\ \A k \in 1..Len(clips) : NarrationOf(clips[k]) = 0
    /\ clips[3].posters # clips[4].posters

\* C3 as stated: every reveal segment lasts exactly 5 + 3*4 seconds, with or
\* without a caption narration.
C3_RevealAlwaysSeventeen ==
    \A k \in HintClips : clips[k].duration = SecondsToTicks(17)

\* C3 amended: a reveal segment lasts max(5, A) + 3*4 seconds, A being the
\* length of the caption narration (0 without one): 17 seconds exactly when
\* there is no narration or it is at most 5 seconds long, more otherwise.
C3_RevealDuration ==
    \A k \in HintClips :
        /\ clips[k].duration
              = Max(SecondsToTicks(5), NarrationOf(clips[k])) + 3 * SecondsToTicks(4)
        /\ NarrationOf(clips[k]) <= SecondsToTicks(5)
              <=> clips[k].duration = SecondsToTicks(17)

\* A reveal segment whose caption narration is longer than 5 seconds
C3_Witness ==
    \E k \in HintClips : NarrationOf(clips[k]) > SecondsToTicks(5)

\* The timing of the title sub-card and of the two phases of each image,
\* the title sub-card taking title_len
RevealPhasesAt(clip, title_len) ==
    /\ LET title == ElementsOf(clip, "title", 0)
       IN  /\ Len(title) = 1
           /\ title[1].start = 0
           /\ title[1].duration = title_len
    /\ \A i \in 0..2 :
          LET fullscreen == ElementsOf(clip, "fullscreen", i)
              transition == ElementsOf(clip, "transition", i)
          IN  /\ Len(fullscreen) = 1
              /\ Len(transition) = 1
              /\ fullscreen[1].start = title_len + i * SecondsToTicks(4)
              /\ 2 * fullscreen[1].duration = SecondsToTicks(3)
              /\ transition[1].start = EndOf(fullscreen[1])
              /\ 2 * transition[1].duration = SecondsToTicks(3)

\* C5 as stated: the title sub-card takes the first 5 seconds and image i
\* is fullscreen from 5 + 4i, with or without narration.
C5_PhasesStartAtFive ==
    \A k \in HintClips : RevealPhasesAt(clips[k], SecondsToTicks(5))

\* C5 amended: the title sub-card takes the first T = max(5, A) seconds, A
\* being the length of the caption narration (T = 5 without one); image i, in
\* input order, is fullscreen from T + 4i for 1.5 seconds and shrinks from
\* the end of the fullscreen phase for 1.5 seconds, back to back.
C5_PhasesStartAfterTitle ==
    \A k \in HintClips :
        RevealPhasesAt(clips[k], Max(SecondsToTicks(5), NarrationOf(clips[k])))

\* Reveal segments with and without an extended title sub-card in one program
C5_Witness ==
    /\ \E k \in HintClips : NarrationOf(clips[k]) > SecondsToTicks(5)
    /\ \E k \in HintClips : NarrationOf(clips[k]) = 0

C7_BackgroundCoversSegment ==
    \A k \in HintClips :
        LET bg == ElementsOf(clips[k], "bg", 0)
        IN  /\ Len(bg) = 1
            /\ bg[1].start = 0
            /\ bg[1].duration = clips[k].duration

\* C4: with a voice-over clip of measured duration A on a card of nominal
\* duration D, the card lasts max(D, A), extended when A > D, and its audio
\* is as long as the card (A untruncated when A > D, set to D otherwise);
\* with no path or no file at the path the card lasts D and has no audio.
C4_CardMatchesVoiceOver ==
    card.fn # "none" =>
        LET D == card.nominal
            vo == card.clip.vo
            A == vo.duration
        IN  /\ (vo.path /\ vo.exists /\ vo.loads) =>
                  /\ A > D => (card.clip.duration = A /\ card.clip.audio = Audio(A))
                  /\ A <= D => (card.clip.duration = D /\ card.clip.audio = Audio(D))
                  /\ card.clip.audio.has
                  /\ card.clip.audio.duration = card.clip.duration
                  /\ card.clip.duration = Max(D, A)
            /\ (~vo.path \/ ~vo.exists) =>
                  /\ card.clip.duration = D
                  /\ ~card.clip.audio.has

\* An answer card extended by a voice-over longer than its nominal duration
C4_Witness ==
    /\ card.fn = "create_answer_clip"
    /\ card.clip.vo.loads
    /\ card.clip.vo.duration > card.nominal
    /\ card.clip.duration = card.clip.vo.duration

-----------------------------------------------------------------------------
(* The geometry of one image of a reveal segment *)

\* The shrink window of 1.5 seconds is sampled at Steps + 1 instants
\* t = k * 1.5 / Steps, k = 0..Steps, and at ExtraSteps instants after it
Steps == 8

ExtraSteps == 2

MaxImageSide == 4

\* (width, height) of the frame: the default of create_tiktok_from_json, the
\* default of create_column_animation_clip, and a frame whose sides are not
\* multiples of 3
Frames == { <<1080, 1920>>, <<1920, 1080>>, <<100, 200>> }

\* (width, height) of the image file: every small shape, the shape of a grid
\* cell of the 1080x1920 frame, and a poster of the usual 2:3 format
Images ==
    ((1..MaxImageSide) \X (1..MaxImageSide)) \cup { <<9, 16>>, <<300, 450>> }

cell_width(video_size) == video_size[1] \div 3

cell_height(video_size) == video_size[2] \div 3

GridPositionsTransposed(video_size) ==
    [row \in 0..2 |-> <<row * cell_width(video_size), 1 * cell_height(video_size)>>]

\* for row in range(3): x = 1 * cell_width, y = row * cell_height
grid_positions(video_size) ==
    [row \in 0..2 |-> <<1 * cell_width(video_size), row * cell_height(video_size)>>]

\* img_clip.resized(height=h): the library scales both sides by h / img.h and
\* truncates the new width to whole pixels
ResizedToHeight(img, h) == <<(img[1] * h) \div img[2], h>>

\* img_clip.resized(width=w)
ResizedToWidth(img, w) == <<w, (img[2] * w) \div img[1]>>

FullscreenSizeHeightOnly(img, video_size) ==
    ResizedToHeight(img, video_size[2])

\* The size of fullscreen_clip: scaled to the frame's height, or to its width
\* when that leaves the image narrower than the frame
fullscreen_size(img, video_size) ==
    IF ResizedToHeight(img, video_size[2])[1] < video_size[1]
    THEN ResizedToWidth(img, video_size[1])
    ELSE ResizedToHeight(img, video_size[2])

\* start_pos: the top-left corner that centres start_size in the frame
start_pos(start_size, video_size) ==
    << (video_size[1] - start_size[1]) \div 2,
       (video_size[2] - start_size[2]) \div 2 >>

ProgressUnclamped(k) == k

\* progress = min(t / 1.5, 1.0) at t = k * 1.5 / Steps, as a multiple of
\* 1 / Steps
Progress(k) == Min(k, Steps)

\* 3 * progress**2 - 2 * progress**3, as a multiple of 1 / Steps^3
Eased(p) == 3 * p * p * Steps - 2 * p * p * p

EasedDen == Steps * Steps * Steps

\* start + (end - start) * progress, as a multiple of 1 / Steps^3
Lerp(from, to, e) == from * EasedDen + (to - from) * e

\* position_func(t): the top-left corner, both coordinates over den
position_func(k, from, to) ==
    [x |-> Lerp(from[1], to[1], Eased(Progress(k))),
     y |-> Lerp(from[2], to[2], Eased(Progress(k))),
     den |-> EasedDen]

\* resize_func(t): scale = min(w / original_w, h / original_h), a fraction
\* num / den; w and h are multiples of 1 / Steps^3
resize_func(k, img, from, to) ==
    LET w == Lerp(from[1], to[1], Eased(Progress(k)))
        h == Lerp(from[2], to[2], Eased(Progress(k)))
    IN  [num |-> Min(w * img[2], h * img[1]),
         den |-> EasedDen * img[1] * img[2]]

AnimInit ==
    /\ IdleServices
    /\ IdleRender
    /\ card = IdleCard
    /\ resolver = IdleResolver
    /\ surface = IdleSurface
    /\ anim \in { [phase |-> "input", video_size |-> f, img |-> im, i |-> i] :
                    f \in Frames, im \in Images, i \in 0..2 }

\* Lines 219-230, 261-274, 314-342 for image i: the grid, the fullscreen
\* clip, the parameters of the transition and the static clip
PlaceImage ==
    /\ anim.phase = "input"
    /\ LET size == fullscreen_size(anim.img, anim.video_size)
           cell == grid_positions(anim.video_size)[anim.i]
       IN  anim' = [phase |-> "placed",
                    video_size |-> anim.video_size,
                    img |-> anim.img,
                    i |-> anim.i,
                    grid_positions |-> grid_positions(anim.video_size),
                    start_size |-> size,
                    start_pos |-> start_pos(size, anim.video_size),
                    end_size |-> << cell_width(anim.video_size),
                                    cell_height(anim.video_size) >>,
                    end_pos |-> cell,
                    final_size |-> << cell_width(anim.video_size),
                                      cell_height(anim.video_size) >>,
                    final_pos |-> cell,
                    k |-> 0,
                    pos |-> [x |-> 0, y |-> 0, den |-> 1],
                    scale |-> [num |-> 0, den |-> 1]]
    /\ UNCHANGED <<renderVars, card, resolver, surface, serviceVars>>

\* The transition clip evaluated at instant k of its own clock
SampleAt(k) ==
    anim' = [anim EXCEPT
                !.phase = "sampled",
                !.k = k,
                !.pos = position_func(k, anim.start_pos, anim.end_pos),
                !.scale = resize_func(k, anim.img, anim.start_size,
                                      anim.end_size)]

StartTransition ==
    /\ anim.phase = "placed"
    /\ SampleAt(0)
    /\ UNCHANGED <<renderVars, card, resolver, surface, serviceVars>>

AdvanceTransition ==
    /\ anim.phase = "sampled"
    /\ anim.k < Steps + ExtraSteps
    /\ SampleAt(anim.k + 1)
    /\ UNCHANGED <<renderVars, card, resolver, surface, serviceVars>>

AnimNext ==
    \/ PlaceImage
    \/ StartTransition
    \/ AdvanceTransition

SpecAnim == AnimInit /\ [][AnimNext]_vars

-----------------------------------------------------------------------------
(* Properties of the geometry *)

Placed == anim.phase \in {"placed", "sampled"}

\* The rectangle of grid cell row of the placed image's frame
CellLeft(row) == anim.grid_positions[row][1]

CellTop(row) == anim.grid_positions[row][2]

\* C8: grid cell i has its top-left corner at (W div 3, i * (H div 3)) and
\* measures (W div 3) x (H div 3); image i goes to cell i, where its static
\* clip is pinned; for 1080x1920 the cells are at x = 360, y = 0, 640, 1280
\* and measure 360x640; the three cells are disjoint and inside the frame.
C8_GridCells ==
    Placed =>
        LET W == anim.video_size[1]
            H == anim.video_size[2]
        IN  /\ \A row \in 0..2 :
                  /\ anim.grid_positions[row] = <<W \div 3, row * (H \div 3)>>
                  /\ CellLeft(row) >= 0 /\ CellTop(row) >= 0
                  /\ CellLeft(row) + anim.end_size[1] <= W
                  /\ CellTop(row) + anim.end_size[2] <= H
            /\ \A a, b \in 0..2 :
                  a < b => CellTop(a) + anim.end_size[2] <= CellTop(b)
            /\ anim.end_size = <<W \div 3, H \div 3>>
            /\ anim.end_pos = anim.grid_positions[anim.i]
            /\ anim.final_pos = anim.grid_positions[anim.i]
            /\ anim.final_size = anim.end_size
            /\ anim.video_size = <<1080, 1920>> =>
                  /\ anim.end_size = <<360, 640>>
                  /\ anim.end_pos = <<360, 640 * anim.i>>

\* The third image placed in the 1080x1920 frame
C8_Witness ==
    /\ Placed
    /\ anim.video_size = <<1080, 1920>>
    /\ anim.i = 2
    /\ anim.end_pos = <<360, 1280>>

Between(v, a, b) == (a <= v /\ v <= b) \/ (b <= v /\ v <= a)

\* C9: the position of the shrinking image is the start position at t = 0,
\* the grid cell's corner at t = 1.5 and at every later t; the eased progress
\* stays in [0, 1] and never decreases, so each coordinate moves in one
\* direction only and stays between its start and end value.
C9_PositionInterpolates ==
    anim.phase = "sampled" =>
        LET den == anim.pos.den
            before == position_func(anim.k - 1, anim.start_pos, anim.end_pos)
            e == Eased(Progress(anim.k))
        IN  /\ anim.k = 0 =>
                  /\ anim.pos.x = anim.start_pos[1] * den
                  /\ anim.pos.y = anim.start_pos[2] * den
            /\ anim.k >= Steps =>
                  /\ anim.pos.x = anim.end_pos[1] * den
                  /\ anim.pos.y = anim.end_pos[2] * den
            /\ 0 <= e /\ e <= EasedDen
            /\ anim.k >= 1 => e >= Eased(Progress(anim.k - 1))
            /\ Between(anim.pos.x, anim.start_pos[1] * den, anim.end_pos[1] * den)
            /\ Between(anim.pos.y, anim.start_pos[2] * den, anim.end_pos[2] * den)
            /\ anim.k >= 1 =>
                  /\ Between(before.x, anim.start_pos[1] * den, anim.pos.x)
                  /\ Between(before.y, anim.start_pos[2] * den, anim.pos.y)

\* An image on its way, strictly between start and end, and one sampled
\* after the end of the window
C9_Witness ==
    /\ anim.phase = "sampled"
    /\ anim.k > Steps
    /\ anim.start_pos[1] # anim.end_pos[1]
    /\ anim.start_pos[2] # anim.end_pos[2]
    /\ anim.pos.x = anim.end_pos[1] * anim.pos.den

\* The size of the shrinking image is the original dimensions times the
\* scale num / den: its width is num / WidthDen, its height num / HeightDen
WidthDen == anim.scale.den \div anim.img[1]

HeightDen == anim.scale.den \div anim.img[2]

ScaledSizeIs(w, h) ==
    /\ anim.scale.num = w * WidthDen
    /\ anim.scale.num = h * HeightDen

\* The same up to the truncation to whole pixels: each side is at most the
\* given one and less than a pixel below it
ScaledSizeTruncatesTo(w, h) ==
    /\ anim.scale.num <= w * WidthDen
    /\ anim.scale.num > (w - 1) * WidthDen
    /\ anim.scale.num <= h * HeightDen
    /\ anim.scale.num > (h - 1) * HeightDen

\* C10: for every image, the size of the shrinking image is the fullscreen
\* start size at t = 0 (here: up to the truncation to whole pixels) and the
\* grid cell's size, which is the size of the static clip that replaces it,
\* at t = 1.5.
C10_SizeMeetsEndpoints ==
    anim.phase = "sampled" =>
        /\ anim.k = 0 =>
              ScaledSizeTruncatesTo(anim.start_size[1], anim.start_size[2])
        /\ anim.k = Steps =>
              ScaledSizeIs(anim.final_size[1], anim.final_size[2])

\* C11: for every image and frame, the fullscreen size covers the frame
\* (width >= frame width and height >= frame height), equals the frame on
\* at least one axis, and keeps the image's aspect ratio: the other side is
\* the image's side scaled by the same factor, truncated to whole pixels.
C11_CoverFitCoversFrame ==
    Placed =>
        LET W == anim.video_size[1]
            H == anim.video_size[2]
            ow == anim.img[1]
            oh == anim.img[2]
            w == anim.start_size[1]
            h == anim.start_size[2]
        IN  /\ w >= W
            /\ h >= H
            /\ \/ h = H /\ w * oh <= ow * H /\ ow * H < (w + 1) * oh
               \/ w = W /\ h * ow <= oh * W /\ oh * W < (h + 1) * ow

\* An image narrower than the frame after the fit to the frame's height,
\* so that the fit to the frame's width is the one chosen
C11_Witness ==
    /\ Placed
    /\ ResizedToHeight(anim.img, anim.video_size[2])[1] < anim.video_size[1]
    /\ anim.start_size[1] = anim.video_size[1]
    /\ anim.start_size[2] > anim.video_size[2]

-----------------------------------------------------------------------------
(* The asset resolvers and their files *)

MaxCalls == 3

\* Movie titles: two that differ only in a character the path drops or
\* replaces, and the empty title
Titles == { <<"U", "p">>, <<"A", " ", "B">>, <<"A", "-", "B">>, <<>> }

\* Actor names; an actor may be named like a movie
ActorNames == { <<"A", " ", "B">>, <<"U", ":", "p">> }

\* s.replace(a, b) for single characters
Replace(s, a, b) == [j \in 1..Len(s) |-> IF s[j] = a THEN b ELSE s[j]]

\* s.replace(a, "")
Remove(s, a) == SelectSeq(s, LAMBDA c : c # a)

\* title.lower().replace(" ", "_").replace(":", "").replace("-", "_")
normalized_title(title) ==
    Replace(Remove(Replace(Lower(title), " ", "_"), ":"), "-", "_")

\* resource_path(f"assets/{normalized_title}.jpg"), named by its stem
poster_save_path(title) == normalized_title(title)

\* resource_path(f"assets/{actor_name.lower().replace(' ', '_')}.jpg")
headshot_save_path(actor_name) == Replace(Lower(actor_name), " ", "_")

SavePaths ==
    { poster_save_path(t) : t \in Titles }
    \cup { headshot_save_path(a) : a \in ActorNames }

\* A file: whether it exists, the call that wrote it, and whether every
\* chunk of the image was written
NoFile == [exists |-> FALSE, fn |-> "none", name |-> <<>>, complete |-> FALSE]

File(fn, name, complete) ==
    [exists |-> TRUE, fn |-> fn, name |-> name, complete |-> complete]

\* What the network does to a call that reaches it: the search finds no
\* match or no image, the image request fails, the image stream breaks
\* after some chunks, or everything arrives
NetOutcomes == {"no_match", "http_error", "partial", "ok"}

ImdbUrls == {"none", "valid"}

NeverExists(files, save_path) == FALSE

\* os.path.exists(save_path)
Exists(files, save_path) == files[save_path].exists

\* The result of a call: the files after it, the path returned unless it
\* raised, the HTTP requests it issued, whether it fetched a whole image
Result(files, returned, path, requests, fetched) ==
    [files |-> files, returned |-> returned, path |-> path,
     requests |-> requests, fetched |-> fetched]

Raise(files, requests) == Result(files, FALSE, <<>>, requests, FALSE)

\* The search request, the image request and the write to save_path
Fetch(files, fn, name, save_path, net) ==
    CASE net = "no_match" -> Raise(files, 1)
      [] net = "http_error" -> Raise(files, 2)
      [] net = "partial" ->
            Raise([files EXCEPT ![save_path] = File(fn, name, FALSE)], 2)
      [] net = "ok" ->
            Result([files EXCEPT ![save_path] = File(fn, name, TRUE)],
                   TRUE, save_path, 2, TRUE)

download_movie_poster_by_imdb_id(files, name, save_path, net) ==
    IF Exists(files, save_path) THEN Result(files, TRUE, save_path, 0, FALSE)
    ELSE Fetch(files, "download_movie_poster", name, save_path, net)

download_movie_poster(files, movie_title, save_path, imdb_url, net) ==
    IF Exists(files, save_path) THEN Result(files, TRUE, save_path, 0, FALSE)
    ELSE IF imdb_url = "valid"
         THEN download_movie_poster_by_imdb_id(files, movie_title, save_path,
                                               net)
         ELSE IF movie_title = <<>> THEN Raise(files, 0)
              ELSE Fetch(files, "download_movie_poster", movie_title,
                         save_path, net)

download_actor_headshot(files, actor_name, save_path, net) ==
    IF Exists(files, save_path) THEN Result(files, TRUE, save_path, 0, FALSE)
    ELSE Fetch(files, "download_actor_headshot", actor_name, save_path, net)

\* One finished call, as the history keeps it
Call(fn, name, save_path, before, r) ==
    [fn |-> fn, name |-> name, save_path |-> save_path,
     before |-> before[save_path], after |-> r.files[save_path],
     others_kept |-> \A p \in SavePaths \ {save_path} : r.files[p] = before[p],
     returned |-> r.returned, path |-> r.path, requests |-> r.requests,
     fetched |-> r.fetched]

ResolverInit ==
    /\ IdleServices
    /\ IdleRender
    /\ card = IdleCard
    /\ anim = IdleAnim
    /\ surface = IdleSurface
    /\ resolver = [phase |-> "ready",
                   files |-> [p \in SavePaths |-> NoFile],
                   calls |-> <<>>]

\* main.py:441-443: the poster of a movie is resolved to its save path
ResolvePoster ==
    /\ resolver.phase = "ready"
    /\ Len(resolver.calls) < MaxCalls
    /\ \E title \in Titles, imdb_url \in ImdbUrls, net \in NetOutcomes :
          LET save_path == poster_save_path(title)
              r == download_movie_poster(resolver.files, title, save_path,
                                         imdb_url, net)
          IN  resolver' =
                  [resolver EXCEPT
                      !.files = r.files,
                      !.calls = Append(@, Call("download_movie_poster", title,
                                               save_path, resolver.files, r))]
    /\ UNCHANGED <<renderVars, card, anim, surface, serviceVars>>

\* main.py:474-476: the headshot of the actor is resolved to its save path
ResolveHeadshot ==
    /\ resolver.phase = "ready"
    /\ Len(resolver.calls) < MaxCalls
    /\ \E actor_name \in ActorNames, net \in NetOutcomes :
          LET save_path == headshot_save_path(actor_name)
              r == download_actor_headshot(resolver.files, actor_name,
                                           save_path, net)
          IN  resolver' =
                  [resolver EXCEPT
                      !.files = r.files,
                      !.calls = Append(@, Call("download_actor_headshot",
                                               actor_name, save_path,
                                               resolver.files, r))]
    /\ UNCHANGED <<renderVars, card, anim, surface, serviceVars>>

ResolverNext ==
    \/ ResolvePoster
    \/ ResolveHeadshot

SpecResolver == ResolverInit /\ [][ResolverNext]_vars

-----------------------------------------------------------------------------
(* The web surface, POST /create_tiktok_video *)

\* The 'manifest' field of the request body: absent, an empty mapping, a
\* manifest the render job can finish, one it rejects
RequestManifests == {"absent", "empty", "valid", "defective"}

\* The 'output_path' field; "." is the default
OutputPaths == {".", "", "videos"}

\* def create_tiktok_from_json(json_file_path, output_video_path,
\*                             video_size, fps)
RenderParameters ==
    {"json_file_path", "output_video_path", "video_size", "fps"}

\* The keyword arguments of the surface's call
CallKeywords ==
    {"json_file_path", "output_video_path", "video_size", "fps",
     "upload_to_b2", "delete_local_after_upload"}

\* What the render job does with the manifest when it runs
JobOutcomes(manifest) ==
    IF manifest = "valid" THEN {"completes", "fails"} ELSE {"fails"}

\* if not manifest
Falsy(manifest) == manifest \in {"absent", "empty"}

\* os.path.join(main_dir, output_filename) for "." and "", else
\* os.path.join(output_path, output_filename)
full_output_path(output_path) ==
    IF output_path = "." \/ output_path = ""
    THEN <<"main_dir", "output_filename">>
    ELSE <<output_path, "output_filename">>

\* The call create_tiktok_from_json(**keywords): a keyword that is not a
\* parameter raises TypeError before the body runs; the body raises or
\* runs to its end, where it returns None (it has no return statement)
CallRenderJob(parameters, keywords, job) ==
    IF ~(keywords \subseteq parameters)
    THEN [raised |-> TRUE, exception |-> "TypeError", value |-> "unset",
          encoded |-> FALSE]
    ELSE IF job = "fails"
         THEN [raised |-> TRUE, exception |-> "render error",
               value |-> "unset", encoded |-> FALSE]
         ELSE [raised |-> FALSE, exception |-> "none", value |-> "None",
               encoded |-> TRUE]

\* The JSON body and the status of the answer; upload_to_b2_failed is set
\* together with upload_error
Response(status, success, output_path, message, upload_to_b2_failed) ==
    [status |-> status, success |-> success, output_path |-> output_path,
     message |-> message, upload_to_b2_failed |-> upload_to_b2_failed]

NoPath == <<>>

\* Lines 76-156: the call, the reading of its result, and the handler of
\* every exception. result.get('uploaded_to_b2') on a result that is None
\* raises AttributeError; on a mapping the success response is returned.
RenderResponse(output_path, job) ==
    LET result == CallRenderJob(RenderParameters, CallKeywords, job)
    IN  IF result.raised
        THEN Response(500, FALSE, NoPath, result.exception, FALSE)
        ELSE IF result.value = "None"
             THEN Response(500, FALSE, NoPath, "AttributeError", FALSE)
             ELSE Response(200, TRUE, full_output_path(output_path),
                           "TikTok video created successfully!",
                           ~result.value.uploaded_to_b2
                               /\ result.value.upload_error)

\* The file at full_output_path after the call: write_videofile is the last
\* statement of the job and the only one that writes it
LocalFile(job) ==
    IF CallRenderJob(RenderParameters, CallKeywords, job).encoded
    THEN "written" ELSE "absent"

\* What Backblaze B2 does with an upload, when one is made
B2Outcomes == {"accepts", "rejects"}

SurfaceInit ==
    /\ IdleServices
    /\ IdleRender
    /\ card = IdleCard
    /\ anim = IdleAnim
    /\ resolver = IdleResolver
    /\ surface \in { [phase |-> "received", manifest |-> m, output_path |-> o,
                      upload_to_b2 |-> u, delete_local_after_upload |-> d,
                      b2_credentials |-> c] :
                       m \in RequestManifests, o \in OutputPaths,
                       u \in BOOLEAN, d \in BOOLEAN, c \in BOOLEAN }

Respond(response, job, b2, temp_manifest, environ) ==
    surface' = [phase |-> "responded",
                manifest |-> surface.manifest,
                output_path |-> surface.output_path,
                upload_to_b2 |-> surface.upload_to_b2,
                delete_local_after_upload |-> surface.delete_local_after_upload,
                b2_credentials |-> surface.b2_credentials,
                job |-> job,
                b2 |-> b2,
                local_file |-> LocalFile(job),
                temp_manifest |-> temp_manifest,
                environ |-> environ,
                response |-> response]

\* Lines 64-68: no manifest, no job
RejectRequest ==
    /\ surface.phase = "received"
    /\ Falsy(surface.manifest)
    /\ Respond(Response(400, FALSE, NoPath, "No manifest data provided",
                        FALSE),
               "fails", "rejects", "never written", {})
    /\ UNCHANGED <<renderVars, card, anim, resolver, serviceVars>>

\* Lines 70-156: the manifest goes to a temporary file, the B2 credentials
\* to the environment, the job is called, the temporary file is removed
RenderRequest ==
    /\ surface.phase = "received"
    /\ ~Falsy(surface.manifest)
    /\ \E job \in JobOutcomes(surface.manifest), b2 \in B2Outcomes :
          Respond(RenderResponse(surface.output_path, job), job, b2, "removed",
                  IF surface.b2_credentials
                  THEN {"B2_APPLICATION_KEY_ID", "B2_APPLICATION_KEY",
                        "B2_BUCKET_NAME"}
                  ELSE {})
    /\ UNCHANGED <<renderVars, card, anim, resolver, serviceVars>>

SurfaceNext ==
    \/ RejectRequest
    \/ RenderRequest

SpecSurface == SurfaceInit /\ [][SurfaceNext]_vars

-----------------------------------------------------------------------------
(* The cloud storage client, B2StorageClient *)

MaxOperations == 3

coreVars == <<renderVars, card, anim, resolver, surface>>

\* The local files a caller may name, by path
LocalPaths == {"out/video.mp4", "gone.mp4"}

\* os.path.basename(local_file_path)
basename(local_file_path) ==
    IF local_file_path = "out/video.mp4" THEN "video.mp4" ELSE local_file_path

\* What the B2 service and the disk do during one operation: the account
\* authorisation, the bucket lookup (found, created after NonExistentBucket,
\* or an error), the call on the bucket or API, and os.remove
Environments ==
    [authorize : {"ok", "fails"},
     bucket : {"found", "created", "fails"},
     call : {"ok", "fails"},
     url : {"ok", "fails"},
     remove : {"ok", "fails"}]

\* The client after __init__ with credentials and a bucket name
NewClient ==
    [_authenticated |-> FALSE, bucket |-> "None", authorized |-> FALSE]

AlwaysAuthenticates(client) == TRUE

\* if self._authenticated: return
NeedsAuthentication(client) == ~client._authenticated

\* authenticate(): the client after it, whether it raised, and the number
\* of authorize_account requests it made
authenticate(client, env) ==
    IF ~NeedsAuthentication(client)
    THEN [client |-> client, raised |-> FALSE, requests |-> 0]
    ELSE IF env.authorize = "fails"
         THEN [client |-> client, raised |-> TRUE, requests |-> 1]
         ELSE IF env.bucket = "fails"
              THEN [client |-> [client EXCEPT !.authorized = TRUE],
                    raised |-> TRUE, requests |-> 1]
              ELSE [client |-> [_authenticated |-> TRUE, bucket |-> "bucket",
                                authorized |-> TRUE],
                    raised |-> FALSE, requests |-> 1]

\* if not self._authenticated: self.authenticate()
EnsureAuthenticated(client, env) ==
    IF ~client._authenticated THEN authenticate(client, env)
    ELSE [client |-> client, raised |-> FALSE, requests |-> 0]

\* One finished operation, as the state keeps it. touched tells whether the
\* bucket or the API was used after the authentication step, and
\* touched_in the value of _authenticated and bucket at that moment.
Outcome(op, client, raised, requests, touched, local, remote, local_deleted) ==
    [op |-> op, client |-> client, raised |-> raised, requests |-> requests,
     touched |-> touched,
     touched_in |-> IF touched THEN <<client._authenticated, client.bucket>>
                               ELSE <<FALSE, "None">>,
     local |-> local, remote |-> remote, local_deleted |-> local_deleted]

DeletesBeforeUpload(delete_local, uploaded) == delete_local

\* The local file is removed when delete_local is set, inside the try block
\* that follows the upload and the download URL
DeletesLocal(delete_local, uploaded) == delete_local /\ uploaded

\* upload_file(local_file_path, None, delete_local)
upload_file(client, local, remote, local_file_path, delete_local, env) ==
    IF ~local[local_file_path]
    THEN Outcome("upload_file", client, TRUE, 0, FALSE, local, remote, FALSE)
    ELSE LET a == EnsureAuthenticated(client, env)
             uploaded == ~a.raised /\ env.call = "ok"
             returned == uploaded /\ env.url = "ok"
             removed == /\ DeletesLocal(delete_local, returned)
                        /\ env.remove = "ok"
         IN  Outcome("upload_file", a.client, ~returned, a.requests,
                     ~a.raised,
                     [local EXCEPT ![local_file_path] = ~removed],
                     IF uploaded THEN remote \cup {basename(local_file_path)}
                                 ELSE remote,
                     removed)

\* generate_download_url(file_name) and list_files(): the authentication,
\* then one call that changes nothing
ReadOperation(op, client, local, remote, env) ==
    LET a == EnsureAuthenticated(client, env)
    IN  Outcome(op, a.client, a.raised \/ env.call = "fails", a.requests,
                ~a.raised, local, remote, FALSE)

\* delete_file(file_name, file_id)
delete_file(client, local, remote, file_name, env) ==
    LET a == EnsureAuthenticated(client, env)
        deleted == ~a.raised /\ env.call = "ok"
    IN  Outcome("delete_file", a.client, ~deleted, a.requests, ~a.raised,
                local, IF deleted THEN remote \ {file_name} ELSE remote,
                FALSE)

StorageInit ==
    /\ IdleRender
    /\ card = IdleCard
    /\ anim = IdleAnim
    /\ resolver = IdleResolver
    /\ surface = IdleSurface
    /\ server = IdleServer
    /\ generator = IdleGenerator
    /\ recommender = IdleRecommender
    /\ storage = [phase |-> "ready",
                  client |-> NewClient,
                  local |-> [p \in LocalPaths |-> p = "out/video.mp4"],
                  remote |-> {},
                  operations |-> 0,
                  before |-> NewClient,
                  argument |-> [path |-> "none", delete_local |-> FALSE,
                                local |-> [p \in LocalPaths |-> FALSE]],
                  last |-> Outcome("none", NewClient, FALSE, 0, FALSE,
                                   [p \in LocalPaths |-> p = "out/video.mp4"],
                                   {}, FALSE)]

\* The state after an operation whose outcome is r
Finish(r, path, delete_local) ==
    storage' = [phase |-> "ready",
                client |-> r.client,
                local |-> r.local,
                remote |-> r.remote,
                operations |-> storage.operations + 1,
                before |-> storage.client,
                argument |-> [path |-> path, delete_local |-> delete_local,
                              local |-> storage.local],
                last |-> r]

CanOperate ==
    /\ storage.phase = "ready"
    /\ storage.operations < MaxOperations

Authenticate ==
    /\ CanOperate
    /\ \E env \in Environments :
          LET a == authenticate(storage.client, env)
          IN  Finish(Outcome("authenticate", a.client, a.raised, a.requests,
                             FALSE, storage.local, storage.remote, FALSE),
                     "none", FALSE)
    /\ UNCHANGED <<coreVars, server, generator, recommender>>

UploadFile ==
    /\ CanOperate
    /\ \E path \in LocalPaths, delete_local \in BOOLEAN, env \in Environments :
          Finish(upload_file(storage.client, storage.local, storage.remote,
                             path, delete_local, env),
                 path, delete_local)
    /\ UNCHANGED <<coreVars, server, generator, recommender>>

GenerateDownloadUrl ==
    /\ CanOperate
    /\ \E env \in Environments :
          Finish(ReadOperation("generate_download_url", storage.client,
                               storage.local, storage.remote, env),
                 "none", FALSE)
    /\ UNCHANGED <<coreVars, server, generator, recommender>>

ListFiles ==
    /\ CanOperate
    /\ \E env \in Environments :
          Finish(ReadOperation("list_files", storage.client, storage.local,
                               storage.remote, env),
                 "none", FALSE)
    /\ UNCHANGED <<coreVars, server, generator, recommender>>

DeleteFile ==
    /\ CanOperate
    /\ \E env \in Environments :
          Finish(delete_file(storage.client, storage.local, storage.remote,
                             "video.mp4", env),
                 "none", FALSE)
    /\ UNCHANGED <<coreVars, server, generator, recommender>>

StorageNext ==
    \/ Authenticate
    \/ UploadFile
    \/ GenerateDownloadUrl
    \/ ListFiles
    \/ DeleteFile

SpecStorage == StorageInit /\ [][StorageNext]_vars

-----------------------------------------------------------------------------
(* The process that serves the render requests: the environment of the
   process and the module constants of main are shared by all the requests
   it serves, and the handlers of two requests may interleave *)

MaxRequests == 2

Requests == 1..MaxRequests

\* A key is written as the number of the request that supplied it, and 0 is
\* the value no request supplied: an entry the request does not carry, or
\* the value the process started with
Supplied(r) == {0, r}

\* The fields of the request that the handler reads
Payloads(r) ==
    [omdb_api_key : Supplied(r), tmdb_api_key : Supplied(r),
     b2_credentials : Supplied(r)]

NewRequest ==
    [pc |-> "waiting",
     payload |-> [omdb_api_key |-> 0, tmdb_api_key |-> 0,
                  b2_credentials |-> 0],
     temp_manifest_path |-> 0,
     read |-> {},
     job_keys |-> [OMDB_API_KEY |-> 0, TMDB_API_KEY |-> 0],
     constructed |-> FALSE,
     status |-> 0]

\* os.environ after the handler of a request has copied the keys and the
\* credentials the request carries
SetEnviron(environ, payload) ==
    [GTA_OMDB_API_KEY |-> IF payload.omdb_api_key # 0
                          THEN payload.omdb_api_key
                          ELSE environ.GTA_OMDB_API_KEY,
     GTA_TMDB_API_KEY |-> IF payload.tmdb_api_key # 0
                          THEN payload.tmdb_api_key
                          ELSE environ.GTA_TMDB_API_KEY,
     B2 |-> IF payload.b2_credentials # 0
            THEN payload.b2_credentials
            ELSE environ.B2]

\* The module main after an import statement: its constants are read from
\* the environment when the module is loaded, and an import of a loaded
\* module leaves them as they are
LoadsModule(main) == ~main.loaded

ImportedMain(main, environ) ==
    IF LoadsModule(main)
    THEN [loaded |-> TRUE,
          OMDB_API_KEY |-> environ.GTA_OMDB_API_KEY,
          TMDB_API_KEY |-> environ.GTA_TMDB_API_KEY]
    ELSE main

ServerInit ==
    /\ IdleRender
    /\ card = IdleCard
    /\ anim = IdleAnim
    /\ resolver = IdleResolver
    /\ surface = IdleSurface
    /\ storage = IdleStorage
    /\ generator = IdleGenerator
    /\ recommender = IdleRecommender
    /\ server = [phase |-> "ready",
                 environ |-> [GTA_OMDB_API_KEY |-> 0, GTA_TMDB_API_KEY |-> 0,
                              B2 |-> 0],
                 main |-> [loaded |-> FALSE, OMDB_API_KEY |-> 0,
                           TMDB_API_KEY |-> 0],
                 temp_files |-> {},
                 requests |-> [r \in Requests |-> NewRequest]]

\* The request r is at position p of its handler
At(r, p) ==
    /\ server.phase = "ready"
    /\ server.requests[r].pc = p

\* The handler reads the request and writes the manifest to a temporary
\* file of a fresh name
SaveManifest ==
    /\ \E r \in Requests :
          /\ At(r, "waiting")
          /\ \E payload \in Payloads(r) :
                server' = [server EXCEPT
                    !.temp_files = @ \cup {r},
                    !.requests[r].pc = "saved",
                    !.requests[r].payload = payload,
                    !.requests[r].temp_manifest_path = r]
    /\ UNCHANGED <<coreVars, storage, generator, recommender>>

\* The handler copies the keys and the credentials into os.environ
SetEnvironment ==
    /\ \E r \in Requests :
          /\ At(r, "saved")
          /\ server' = [server EXCEPT
                !.environ = SetEnviron(@, server.requests[r].payload),
                !.requests[r].pc = "environment set"]
    /\ UNCHANGED <<coreVars, storage, generator, recommender>>

\* The handler imports the render job from main; the entries of the
\* environment that a load of the module reads are read while the request
\* is served
ImportMain ==
    /\ \E r \in Requests :
          /\ At(r, "environment set")
          /\ server' = [server EXCEPT
                !.main = ImportedMain(@, server.environ),
                !.requests[r].pc = "imported",
                !.requests[r].read =
                    IF LoadsModule(server.main)
                    THEN @ \cup {server.environ.GTA_OMDB_API_KEY,
                                 server.environ.GTA_TMDB_API_KEY}
                    ELSE @]
    /\ UNCHANGED <<coreVars, storage, generator, recommender>>

\* The handler calls the render job, which builds its poster and headshot
\* clients from the constants of main (job_keys) when the call binds; then
\* the temporary manifest is removed and the response is sent
ServeRender ==
    /\ \E r \in Requests, job \in {"completes", "fails"} :
          /\ At(r, "imported")
          /\ LET result == CallRenderJob(RenderParameters, CallKeywords, job)
                 entered == result.exception # "TypeError"
             IN  server' = [server EXCEPT
                    !.temp_files = @ \ {server.requests[r].temp_manifest_path},
                    !.requests[r].pc = "responded",
                    !.requests[r].read =
                        IF entered
                        THEN @ \cup {server.main.OMDB_API_KEY,
                                     server.main.TMDB_API_KEY}
                        ELSE @,
                    !.requests[r].job_keys =
                        [OMDB_API_KEY |-> server.main.OMDB_API_KEY,
                         TMDB_API_KEY |-> server.main.TMDB_API_KEY],
                    !.requests[r].constructed = entered,
                    !.requests[r].status =
                        IF result.raised \/ result.value = "None"
                        THEN 500 ELSE 200]
    /\ UNCHANGED <<coreVars, storage, generator, recommender>>

ServerNext ==
    \/ SaveManifest
    \/ SetEnvironment
    \/ ImportMain
    \/ ServeRender

SpecServer == ServerInit /\ [][ServerNext]_vars

-----------------------------------------------------------------------------
(* The recommender of an actor's movies, _sort_and_filter_movies *)

MaxCredits == 3

MaxLimit == 3

\* None, for a field the credit lacks or gives as null
Null == -1

\* Popularities, in tenths: absent, zero, 1.0 and 1.5
Popularities == {Null, 0, 10, 15}

\* Cast orders: absent, the first two billing positions, one beyond 50
Orders == {Null, 0, 1, 60}

\* A credit of the movie_credits list; its title and id are its position
\* in the list
Credits == [popularity : Popularities, order : Orders]

CreditLists == UNION { [1..n -> Credits] : n \in 0..MaxCredits }

Limits == 0..MaxLimit

KeepsZeroPopularity(movie) ==
    movie.popularity # Null /\ movie.order # Null

\* movie.get("popularity") and movie.get("order") is not None
IsValidMovie(movie) ==
    /\ movie.popularity # Null
    /\ movie.popularity # 0
    /\ movie.order # Null

\* (0.8 * popularity) + (0.2 * order_score * 100) with order_score =
\* max(0, 1 - order / 50), times 50 and with the popularity in tenths
combined_score(movie) ==
    4 * movie.popularity + Max(0, 1000 - 20 * movie.order)

\* The credits with their positions, the ones without required data
\* filtered out
valid_movies(movie_credits) ==
    SelectSeq([j \in 1..Len(movie_credits) |->
                  [id |-> j, popularity |-> movie_credits[j].popularity,
                   order |-> movie_credits[j].order]],
              IsValidMovie)

\* The place of one more movie in a list sorted by descending score: behind
\* every movie whose score is not lower
RECURSIVE InsertByScore(_, _)
InsertByScore(sorted, movie) ==
    IF sorted = <<>> THEN <<movie>>
    ELSE IF combined_score(Head(sorted)) >= combined_score(movie)
         THEN <<Head(sorted)>> \o InsertByScore(Tail(sorted), movie)
         ELSE <<movie>> \o sorted

\* sorted(valid_movies, key = combined_score, reverse = True): movies of
\* equal score keep the order they had
RECURSIVE sorted_movies(_)
sorted_movies(movies) ==
    IF movies = <<>> THEN <<>>
    ELSE InsertByScore(sorted_movies(SubSeq(movies, 1, Len(movies) - 1)),
                       movies[Len(movies)])

\* The fields of a movie that the result carries
TopMovie(movie) ==
    [title |-> movie.id, cast_order |-> movie.order,
     popularity |-> movie.popularity, movie_id |-> movie.id]

_sort_and_filter_movies(movie_credits, limit) ==
    LET sorted == sorted_movies(valid_movies(movie_credits))
    IN  [k \in 1..Min(limit, Len(sorted)) |-> TopMovie(sorted[k])]

RecommenderInit ==
    /\ IdleRender
    /\ card = IdleCard
    /\ anim = IdleAnim
    /\ resolver = IdleResolver
    /\ surface = IdleSurface
    /\ storage = IdleStorage
    /\ server = IdleServer
    /\ generator = IdleGenerator
    /\ \E movie_credits \in CreditLists, limit \in Limits :
          recommender = [phase |-> "ready", movie_credits |-> movie_credits,
                         limit |-> limit, top_movies |-> <<>>]

SortAndFilterMovies ==
    /\ recommender.phase = "ready"
    /\ recommender' =
          [recommender EXCEPT
              !.phase = "returned",
              !.top_movies = _sort_and_filter_movies(recommender.movie_credits,
                                                     recommender.limit)]
    /\ UNCHANGED <<coreVars, storage, server, generator>>

RecommenderNext ==
    \/ SortAndFilterMovies

SpecRecommender == RecommenderInit /\ [][RecommenderNext]_vars

-----------------------------------------------------------------------------
(* The web surface, POST /generate_manifest *)

MaxMovies == 10

KeyFirstHint == <<"f", "i", "r", "s", "t", "_", "h", "i", "n", "t">>

KeySecondHint == <<"s", "e", "c", "o", "n", "d", "_", "h", "i", "n", "t">>

KeyThirdHint == <<"t", "h", "i", "r", "d", "_", "h", "i", "n", "t">>

KeyOmdbApiKey ==
    <<"o", "m", "d", "b", "_", "a", "p", "i", "_", "k", "e", "y">>

\* The characters of the manifest keys, in the order of their code points
Alphabet ==
    <<"_", "a", "b", "c", "d", "e", "f", "g", "h", "i", "j", "k", "l", "m",
      "n", "o", "p", "q", "r", "s", "t", "u", "v", "w", "x", "y", "z">>

CodePoint(c) == CHOOSE i \in 1..Len(Alphabet) : Alphabet[i] = c

\* s < t for two strings
RECURSIVE StringLess(_, _)
StringLess(s, t) ==
    IF t = <<>> THEN FALSE
    ELSE IF s = <<>> THEN TRUE
    ELSE IF Head(s) = Head(t) THEN StringLess(Tail(s), Tail(t))
    ELSE CodePoint(Head(s)) < CodePoint(Head(t))

RECURSIVE InsertByKey(_, _)
InsertByKey(sorted, item) ==
    IF sorted = <<>> THEN <<item>>
    ELSE IF StringLess(item.key, Head(sorted).key)
         THEN <<item>> \o sorted
         ELSE <<Head(sorted)>> \o InsertByKey(Tail(sorted), item)

\* The order of the entries of a mapping in the body jsonify writes: the
\* keys are sorted
RECURSIVE SortKeys(_)
SortKeys(items) ==
    IF items = <<>> THEN <<>>
    ELSE InsertByKey(SortKeys(SubSeq(items, 1, Len(items) - 1)),
                     items[Len(items)])

\* The values of the manifest the surface generates
GeneratedHint(caption, movies) ==
    [kind |-> "hint", caption |-> caption, movies |-> movies]

GeneratedAnswer(caption) ==
    [kind |-> "answer", caption |-> caption, movies |-> <<>>]

GeneratedScalar == [kind |-> "scalar", caption |-> <<>>, movies |-> <<>>]

\* hint_captions of the request: not given, a list of two, a list of three
HintCaptions ==
    { [given |-> FALSE, value |-> <<>>],
      [given |-> TRUE, value |-> << <<"o", "n", "e">>, <<"t", "w", "o">> >>],
      [given |-> TRUE,
       value |-> << <<"x">>, <<"h", "i", "n", "t">>, <<"z">> >>] }

DefaultHintCaptions ==
    << <<"H", "a", "r", "d">>, <<"M", "e", "d", "i", "u", "m">>,
       <<"E", "a", "s", "y">> >>

\* The requests: the actor's name, empty when the request has none, the
\* captions, and whether the request carries the keys and the credentials
GenerateRequests ==
    [actor_name : ActorNames \cup {<<>>},
     hint_captions : HintCaptions,
     omdb_api_key : BOOLEAN, tmdb_api_key : BOOLEAN,
     b2_credentials : BOOLEAN]

\* The credits TMDB lists for the actor: without is the number of credits
\* that lack a popularity, with the number of the others, which follow
CreditsOf(without, with) ==
    [j \in 1..(without + with) |->
        IF j <= without THEN [popularity |-> 0, order |-> 0]
        ELSE [popularity |-> 10 + 5 * (j % 2), order |-> j % 3]]

\* What get_actor_top_movies does: the recommender has no API key, the
\* actor is not found, a request to TMDB fails, or it returns the movies
\* it selected from the credits
RecommenderOutcomes ==
    { [kind |-> k, without |-> 0, with |-> 0] :
        k \in {"no_api_key", "actor_not_found", "request_error"} }
    \cup { [kind |-> "movies", without |-> w, with |-> n] :
             w \in {0, 1}, n \in 0..MaxMovies }

get_actor_top_movies(outcome, limit) ==
    IF outcome.kind = "movies"
    THEN [raised |-> "none",
          total_movies_found |-> outcome.without + outcome.with,
          movies |-> _sort_and_filter_movies(
                         CreditsOf(outcome.without, outcome.with), limit)]
    ELSE [raised |-> IF outcome.kind = "request_error" THEN "RequestException"
                     ELSE "ValueError",
          total_movies_found |-> 0, movies |-> <<>>]

\* The response: the status, the fields of the body, the value of success
\* where the body has it, and the manifest where the body has one
GenerateResponse(status, fields, success, manifest) ==
    [status |-> status, fields |-> fields, success |-> success,
     manifest |-> manifest]

ErrorResponse(status, more) ==
    GenerateResponse(status, {"success", "message"} \cup more, FALSE, <<>>)

MovieIndexRepeats(hint, j) == j

\* The place in the ranked list of the j-th movie of a hint
MovieIndex(hint, j) == 3 * (hint - 1) + j

\* The three movies of a hint
HintMovies(all_movies, hint) ==
    [j \in 1..3 |-> [title |-> all_movies[MovieIndex(hint, j)].title]]

\* The manifest, in the order the handler builds it
BuiltManifest(request, hint_captions, all_movies) ==
    << Item(KeyFirstHint,
            GeneratedHint(hint_captions[1], HintMovies(all_movies, 1))),
       Item(KeySecondHint,
            GeneratedHint(hint_captions[2], HintMovies(all_movies, 2))),
       Item(KeyThirdHint,
            GeneratedHint(hint_captions[3], HintMovies(all_movies, 3))),
       Item(KeyAnswer, GeneratedAnswer(request.actor_name)),
       Item(KeyBgAudio, GeneratedScalar),
       Item(KeyBgVideo, GeneratedScalar) >>
    \o (IF request.omdb_api_key
        THEN <<Item(KeyOmdbApiKey, GeneratedScalar)>> ELSE <<>>)
    \o (IF request.tmdb_api_key
        THEN <<Item(KeyTmdbApiKey, GeneratedScalar)>> ELSE <<>>)

\* The fields of the payload for /create_tiktok_video
PayloadFields(request) ==
    {"manifest", "upload_to_b2", "delete_local_after_upload",
     "output_filename"}
    \cup (IF request.b2_credentials
          THEN {"b2_application_key_id", "b2_application_key",
                "b2_bucket_name"}
          ELSE {})

generate_manifest(request, outcome) ==
    LET hint_captions == IF request.hint_captions.given
                         THEN request.hint_captions.value
                         ELSE DefaultHintCaptions
        result == get_actor_top_movies(outcome, 9)
        all_movies == result.movies
    IN  IF request.actor_name = <<>>
        THEN ErrorResponse(400, {})
        ELSE IF result.raised = "ValueError"
        THEN ErrorResponse(404, {})
        ELSE IF result.raised # "none"
        THEN ErrorResponse(500, {"errors"})
        ELSE IF Len(all_movies) < 9
        THEN ErrorResponse(400, {"movies_found"})
        ELSE IF Len(hint_captions) < 3
        THEN ErrorResponse(500, {"errors"})
        ELSE GenerateResponse(200, PayloadFields(request), FALSE,
                 SortKeys(BuiltManifest(request, hint_captions, all_movies)))

GeneratorInit ==
    /\ IdleRender
    /\ card = IdleCard
    /\ anim = IdleAnim
    /\ resolver = IdleResolver
    /\ surface = IdleSurface
    /\ storage = IdleStorage
    /\ server = IdleServer
    /\ recommender = IdleRecommender
    /\ generator = [phase |-> "waiting"]

\* A request is served: the recommender is not called for a request
\* without an actor's name
GenerateManifest ==
    /\ generator.phase = "waiting"
    /\ \E request \in GenerateRequests, outcome \in RecommenderOutcomes :
          generator' =
              [phase |-> "responded",
               request |-> request,
               called |-> request.actor_name # <<>>,
               result |-> get_actor_top_movies(outcome, 9),
               response |-> generate_manifest(request, outcome)]
    /\ UNCHANGED <<coreVars, storage, server, recommender>>

GeneratorNext ==
    \/ GenerateManifest

SpecGenerator == GeneratorInit /\ [][GeneratorNext]_vars

-----------------------------------------------------------------------------
(* Properties of the interpreter *)

\* The key contains h, i, n, t in a row, each in either case
HasHintIgnoringCase(key) ==
    \E k \in 0..(Len(key) - 4) :
        /\ key[k + 1] \in {"h", "H"}
        /\ key[k + 2] \in {"i", "I"}
        /\ key[k + 3] \in {"n", "N"}
        /\ key[k + 4] \in {"t", "T"}

\* The items the loop has passed whose key names a hint entry
HintItemsPassed ==
    {j \in 1..(item_idx - 1) : HasHintIgnoringCase(data[j].key)}

\* C12: a top-level key is treated as a hint entry exactly when its name
\* contains "hint" in any case. The keys without it (answer, the background
\* entries, enable_voice_overs, the API-key field) are never validated as
\* hints and produce no segment; every key with it produces exactly one
\* reveal segment or ends the job with a validation error.
C12_HintKeysOnly ==
    /\ \A key \in MetadataKeys : ~HasHintIgnoringCase(key)
    /\ LET passed == HintItemsPassed
       IN  /\ Cardinality(HintClips) = Cardinality(passed)
           /\ \A j \in passed : ValidHint(data[j].val)
    /\ error = "ValueError" =>
          /\ item_idx <= Len(data)
          /\ HasHintIgnoringCase(data[item_idx].key)
          /\ ~ValidHint(data[item_idx].val)
    /\ pc \in {"answer", "mux", "done"} => item_idx = Len(data) + 1

\* The loop has passed the voice-over switch and the API-key field without
\* a segment, built one segment for "hint_", and the entry "xHiNT__" ended
\* the job
C12_Witness ==
    /\ error = "ValueError"
    /\ item_idx = 4
    /\ data[item_idx].key = HintKey(2)
    /\ Cardinality(HintClips) = 1
    /\ Len(clips) = 2

\* A hint entry that is a mapping with caption and movies, the movies a
\* list of exactly 3 entries
WellShapedHint(hint) ==
    /\ hint.is_dict /\ hint.has_caption /\ hint.has_movies
    /\ Len(hint.movies) = 3

\* The manifest has a malformed hint entry or lacks a required entry
Defective(d) ==
    \/ \E j \in 1..Len(d) :
          HasHintIgnoringCase(d[j].key) /\ ~WellShapedHint(d[j].val)
    \/ ~Has(d, KeyAnswer)
    \/ ~Has(d, KeyBgVideo)
    \/ ~Has(d, KeyBgAudio)

\* C13: when a hint entry is not a mapping with caption and movies, or its
\* movies are not exactly 3, or answer, background_video or background_audio
\* is missing, the job ends in an error and in no other way, and
\* write_videofile is never called, whatever was built before.
C13_DefectiveManifestNeverEncoded ==
    Defective(data) =>
        /\ ~written
        /\ final_video = NoVideo
        /\ pc # "done"
        /\ pc = "failed" => error # "none"
        /\ pc # "failed" => ENABLED Next

\* The job built the intro, three reveal segments, the answer card and the
\* answer segment, and then failed on the missing background_audio entry
C13_Witness ==
    /\ pc = "failed"
    /\ error = "KeyError"
    /\ ~Has(data, KeyBgAudio)
    /\ Cardinality(HintClips) = 3
    /\ Len(clips) = 6
    /\ ~written

\* The movie entry names its movie: by title, by imdb_url, or by both
NamesMovie(movie_datum) ==
    movie_datum.is_dict /\ (movie_datum.has_title \/ movie_datum.has_imdb_url)

\* C14: a movie entry is accepted whenever it has a title or an imdb_url,
\* and is rejected only when it has neither: a well-shaped hint entry ends
\* the job with a validation error only if one of its movies names no
\* movie, and every hint entry the loop has passed names all of its movies.
C14_TitleOrImdbUrlAccepted ==
    /\ (error = "ValueError" /\ WellShapedHint(data[item_idx].val)) =>
          \E m \in 1..3 : ~NamesMovie(data[item_idx].val.movies[m])
    /\ \A j \in HintItemsPassed :
          \A m \in 1..3 : NamesMovie(data[j].val.movies[m])

\* The paths an image of a reveal segment can be loaded from: a path the
\* manifest gave, a file the resolver saved, the placeholder asset
LoadablePosters == {"given", "resolved", "placeholder"}

\* C15: when a movie has no poster_path and the poster resolver raises, the
\* movie's poster is the placeholder; the error does not leave the hint
\* loop: the job is at the next item with no error, holding the hint's
\* reveal segment with its 3 images, and goes on towards the encoder.
C15_PosterFailureGivesPlaceholder ==
    /\ \A k \in HintClips :
          /\ Len(clips[k].posters) = 3
          /\ \A m \in 1..3 :
                /\ clips[k].posters[m] \in LoadablePosters
                /\ Len(ElementsOf(clips[k], "fullscreen", m - 1)) = 1
                /\ Len(ElementsOf(clips[k], "transition", m - 1)) = 1
                /\ clips[k].posters[m] = "placeholder" =>
                      ~HintEntry(k - 1).movies[m].has_poster_path
          /\ (k = Len(clips) /\ pc # "failed") =>
                /\ pc = "items"
                /\ \E j \in 1..(item_idx - 1) : data[j].key = HintKey(k - 1)
    /\ error \in {"none", "ValueError", "KeyError", "download_actor_headshot"}

\* A finished, encoded program one of whose reveal segments shows the
\* placeholder for its third movie
C15_Witness ==
    /\ pc = "done"
    /\ written
    /\ \E k \in HintClips :
          /\ clips[k].posters[3] = "placeholder"
          /\ ~HintEntry(k - 1).movies[3].has_poster_path

\* C16: when the answer has no image_path and the headshot resolver fails,
\* the failure is recovered with a fallback and the job goes on: the job
\* never ends with the resolver's error.
C16_HeadshotFailureRecovered ==
    (Has(data, KeyAnswer) /\ ~Lookup(data, KeyAnswer).has_image_path) =>
        ~(pc = "failed" /\ error = "download_actor_headshot")

\* The segment of the given kind built from a voice-over outcome and, for a
\* reveal segment, its poster paths, whatever the other segments are
SegmentBuiltFrom(kind, vo, posters) ==
    CASE kind = "intro" -> create_title_card("intro", SecondsToTicks(5), vo)
      [] kind = "hint" -> create_column_animation_clip(vo, posters)
      [] kind = "answer_intro" ->
            create_title_card("answer_intro", SecondsToTicks(3), vo)
      [] kind = "answer" -> create_answer_clip(SecondsToTicks(5), vo)

\* The duration of a segment without narration: 5 for the intro, 17 for a
\* reveal segment, 3 for "The answer is", 5 for the answer
NominalSegmentDuration(kind) ==
    IF kind = "hint" THEN SecondsToTicks(17) ELSE NominalOf(kind)

\* C17: a synthesis that fails or returns nothing for the intro text, a
\* caption, "The answer is" or the actor name never ends the job: the
\* segment has no narration audio and its nominal duration, and every
\* segment is what its own voice-over outcome alone makes it.
C17_SynthesisFailureLeavesSegmentSilent ==
    /\ \A k \in 1..Len(clips) :
          /\ clips[k].vo = NoVoiceOver =>
                /\ ~clips[k].audio.has
                /\ clips[k].duration = NominalSegmentDuration(clips[k].kind)
                /\ current_time >= SumDurations(SubSeq(clips, 1, k))
          /\ clips[k] =
                SegmentBuiltFrom(clips[k].kind, clips[k].vo, clips[k].posters)
    /\ error \in {"none", "ValueError", "KeyError", "download_actor_headshot"}
    /\ pc = "done" =>
          \A k \in 1..Len(clips) :
              final_video.starts[k] = SumDurations(SubSeq(clips, 1, k - 1))

\* A finished program made with a synthesis client: the syntheses of the
\* intro and of "The answer is" failed, a caption and the actor name were
\* narrated, the caption for longer than its title card
C17_Witness ==
    /\ pc = "done"
    /\ eleven_labs_client
    /\ Len(clips) = 4
    /\ clips[1].vo = NoVoiceOver
    /\ NarrationOf(clips[2]) > SecondsToTicks(5)
    /\ clips[3].vo = NoVoiceOver
    /\ clips[4].audio.has

\* C19: the audio of the encoded program is the background audio, as long
\* as the program, mixed with the narration of every segment that has one:
\* putting the background audio on the program removes no narration.
C19_BackgroundAudioKeepsNarration ==
    pc = "done" =>
        /\ final_video.narration = {k \in 1..Len(clips) : clips[k].audio.has}
        /\ final_video.background_audio.has =>
              final_video.background_audio.duration = final_video.duration

\* C26: when voice-overs are enabled and the initialisation of the
\* Eleven Labs client fails, in the constructor or in the test synthesis,
\* the job holds no client afterwards, so that no synthesis is called for
\* the intro, a caption, "The answer is" or the actor name, and every
\* segment has its nominal duration and no narration.
C26_FailedVoiceInitMeansNoVoiceOvers ==
    voice_init \in {"constructor_raised", "test_raised"} =>
        /\ ~eleven_labs_client
        /\ \A k \in 1..Len(clips) :
              /\ clips[k].vo = NoVoiceOver
              /\ ~clips[k].audio.has
              /\ clips[k].duration = NominalSegmentDuration(clips[k].kind)

-----------------------------------------------------------------------------
(* Properties of the resolvers *)

ResolverCalls ==
    IF resolver.phase = "ready" THEN resolver.calls ELSE <<>>

\* C18: when a file exists at the save path, download_movie_poster and
\* download_actor_headshot return that path, issue no request and leave
\* every file as it is; so of two resolutions of the same title (or actor)
\* at most one fetches an image from the network, and those that return
\* return the same path.
C18_CachedFileIsReturned ==
    /\ \A i \in 1..Len(ResolverCalls) :
          LET c == ResolverCalls[i]
          IN  c.before.exists =>
                  /\ c.returned
                  /\ c.path = c.save_path
                  /\ c.requests = 0
                  /\ c.after = c.before
                  /\ c.others_kept
    /\ \A i, j \in 1..Len(ResolverCalls) :
          LET a == ResolverCalls[i]
              b == ResolverCalls[j]
          IN  (i < j /\ a.fn = b.fn /\ a.name = b.name) =>
                  /\ ~(a.fetched /\ b.fetched)
                  /\ (a.returned /\ b.returned) => a.path = b.path

\* The same title resolved twice: the first call fetched the poster, the
\* second returned the file it found, without a request
C18_Witness ==
    /\ Len(ResolverCalls) >= 2
    /\ ResolverCalls[1].fn = "download_movie_poster"
    /\ ResolverCalls[2].fn = "download_movie_poster"
    /\ ResolverCalls[1].name = ResolverCalls[2].name
    /\ ResolverCalls[1].fetched
    /\ ResolverCalls[2].returned
    /\ ResolverCalls[2].requests = 0
    /\ ResolverCalls[2].path = ResolverCalls[1].path

\* C29: every path a resolver returns as a cache hit is the path of a
\* completely downloaded asset, also after a download that broke off after
\* the file at the save path had been opened for writing.
C29_CacheHitIsComplete ==
    \A i \in 1..Len(ResolverCalls) :
        LET c == ResolverCalls[i]
        IN  (c.returned /\ c.requests = 0 /\ c.before.exists) =>
                c.before.complete

-----------------------------------------------------------------------------
(* Properties of the web surface *)

\* C20: a request with a valid manifest whose render completes is answered
\* with success = true, HTTP 200 and the local output path, the job having
\* taken the upload and delete flags; a failure response is given only when
\* the manifest is missing (400) or the render job itself fails.
C20_ValidRequestSucceeds ==
    surface.phase = "responded" =>
        /\ (surface.manifest = "valid" /\ surface.job = "completes") =>
              /\ surface.response.status = 200
              /\ surface.response.success
              /\ surface.response.output_path =
                    full_output_path(surface.output_path)
        /\ ~surface.response.success =>
              \/ Falsy(surface.manifest) /\ surface.response.status = 400
              \/ surface.job = "fails"

\* C21: when the upload flag is set, the program is encoded and the upload
\* to B2 then fails, the request is still answered as a success: success =
\* true with the local output path, the upload error recorded in the
\* response (upload_to_b2_failed), and the local file kept.
C21_UploadFailureStillSuccess ==
    (/\ surface.phase = "responded"
     /\ surface.upload_to_b2
     /\ surface.manifest = "valid"
     /\ surface.job = "completes"
     /\ surface.b2 = "rejects") =>
        /\ surface.response.success
        /\ surface.response.status = 200
        /\ surface.response.output_path = full_output_path(surface.output_path)
        /\ surface.response.upload_to_b2_failed
        /\ surface.local_file = "written"

-----------------------------------------------------------------------------
(* Properties of the cloud storage client *)

StorageReady == storage.phase = "ready"

\* C22: upload_file removes the local file only after the upload has
\* succeeded and only when delete_local is true; when the authentication
\* or the upload fails, the error is raised and the local file stays as it
\* was.
C22_LocalFileRemovedOnlyAfterUpload ==
    (StorageReady /\ storage.last.op = "upload_file") =>
        LET path == storage.argument.path
            existed == storage.argument.local[path]
            r == storage.last
        IN  /\ (existed /\ ~storage.local[path]) =>
                  /\ storage.argument.delete_local
                  /\ ~r.raised
                  /\ basename(path) \in storage.remote
                  /\ r.local_deleted
            /\ r.raised => storage.local = storage.argument.local
            /\ (existed /\ basename(path) \notin storage.remote) => r.raised
            /\ ~existed => r.raised /\ ~r.touched
            /\ \A p \in LocalPaths \ {path} :
                  storage.local[p] = storage.argument.local[p]

\* An upload with delete_local set, by a client that had to authenticate
\* first, succeeded and removed the local file
C22_Witness ==
    /\ StorageReady
    /\ storage.last.op = "upload_file"
    /\ ~storage.before._authenticated
    /\ storage.argument.delete_local
    /\ storage.argument.local[storage.argument.path]
    /\ storage.last.local_deleted
    /\ ~storage.local[storage.argument.path]
    /\ "video.mp4" \in storage.remote

\* C30: _authenticated is true only when the account authorisation has
\* succeeded and bucket is set; upload, list, delete and download-URL
\* operations use the bucket or the API only in that state; authenticate()
\* on an authenticated client makes no authorisation request; a failed
\* authentication leaves _authenticated false, and the next operation
\* authenticates again.
C30_AuthenticatedMeansAuthorisedWithBucket ==
    StorageReady =>
        LET r == storage.last
        IN  /\ storage.client._authenticated =>
                  storage.client.authorized /\ storage.client.bucket # "None"
            /\ r.touched => r.touched_in = <<TRUE, "bucket">>
            /\ storage.before._authenticated => r.requests = 0
            /\ (~storage.before._authenticated /\ r.raised /\ ~r.touched) =>
                  ~storage.client._authenticated
            /\ (~storage.before._authenticated /\ r.op # "none"
                    /\ ~(r.op = "upload_file"
                            /\ ~storage.argument.local[storage.argument.path])) =>
                  r.requests = 1

\* A client whose authentication had failed at the bucket (authorised, but
\* not authenticated) authenticated again in its next operation, a listing
C30_Witness ==
    /\ StorageReady
    /\ ~storage.before._authenticated
    /\ storage.before.authorized
    /\ storage.last.op = "list_files"
    /\ storage.last.requests = 1
    /\ storage.last.touched
    /\ storage.client._authenticated

-----------------------------------------------------------------------------
(* Properties of the process that serves the render requests *)

\* The requests whose response was sent
Responded == {r \in Requests : server.phase = "ready"
                                /\ server.requests[r].pc = "responded"}

\* C23: two render requests served concurrently are independent: no state
\* written while one is served (the environment of the process, the
\* temporary manifest) is read while the other is served, and each uses the
\* keys and the manifest of its own request
C23_ConcurrentRequestsIndependent ==
    \A r \in Responded :
        LET q == server.requests[r]
        IN  /\ q.read \subseteq Supplied(r)
            /\ q.temp_manifest_path = r
            /\ q.payload.omdb_api_key # 0 =>
                  q.job_keys.OMDB_API_KEY = q.payload.omdb_api_key
            /\ q.payload.tmdb_api_key # 0 =>
                  q.job_keys.TMDB_API_KEY = q.payload.tmdb_api_key

\* C27: the keys a request's manifest carries are the keys of the poster
\* and headshot clients of its render, for the first request the process
\* serves and for every later one
C27_ManifestKeysReachClients ==
    \A r \in Requests :
        (server.phase = "ready" /\ server.requests[r].pc = "responded") =>
            /\ server.requests[r].payload.omdb_api_key \in
                  {0, server.requests[r].job_keys.OMDB_API_KEY}
            /\ server.requests[r].payload.tmdb_api_key \in
                  {0, server.requests[r].job_keys.TMDB_API_KEY}

-----------------------------------------------------------------------------
(* Properties of the recommender *)

\* The credits that have a non-zero popularity and a cast order
Ranked(movie_credits) ==
    {j \in 1..Len(movie_credits) :
        /\ movie_credits[j].popularity \notin {Null, 0}
        /\ movie_credits[j].order # Null}

\* 50 * (0.8 * popularity + 20 * max(0, 1 - order / 50)) of a returned
\* movie, the popularity in tenths
Score50(top_movie) ==
    4 * top_movie.popularity
    + (IF top_movie.cast_order < 50 THEN 1000 - 20 * top_movie.cast_order
       ELSE 0)

-----------------------------------------------------------------------------
(* Properties of the manifest generation *)

GeneratorResponded == generator.phase = "responded"

\* C24: a successful /generate_manifest answers HTTP 200 with a body that
\* has success = true, actor_name, total_movies_found, movie_details and
\* the manifest or video_creation_payload; a failing request is answered
\* with success = false and a message.
C24_GenerateManifestResponseFields ==
    GeneratorResponded =>
        LET response == generator.response
        IN  IF response.status = 200
            THEN /\ "success" \in response.fields
                 /\ response.success
                 /\ {"actor_name", "total_movies_found", "movie_details"}
                       \subseteq response.fields
                 /\ \/ "manifest" \in response.fields
                    \/ "video_creation_payload" \in response.fields
            ELSE /\ {"success", "message"} \subseteq response.fields
                 /\ ~response.success

\* The value of an entry of a generated manifest as the interpreter
\* inspects it
Inspected(val) ==
    CASE val.kind = "hint" ->
            HintValue([j \in 1..Len(val.movies) |-> Titled(FALSE)])
      [] val.kind = "answer" -> AnswerValue(FALSE)
      [] OTHER -> Scalar(TRUE)

\* The keys of the manifest that the interpreter takes for hint entries,
\* in manifest order
HintKeysOf(manifest) ==
    SelectSeq([j \in 1..Len(manifest) |-> manifest[j].key], IsHintKey)

\* C25: /generate_manifest returns a manifest only when the recommender
\* yields at least 9 movies, and answers 400 without a manifest when it
\* yields fewer; a returned manifest has exactly the hint keys first_hint,
\* second_hint, third_hint in this order, each a valid hint of 3 titled
\* movies, which are movies 0-2, 3-5 and 6-8 of the ranked list, none used
\* twice; its answer has the actor's name as caption, and it has the two
\* background entries.
C25_GeneratedManifestIsValid ==
    GeneratorResponded =>
        LET response == generator.response
            manifest == response.manifest
            all_movies == generator.result.movies
        IN  /\ (generator.called /\ generator.result.raised = "none"
                /\ Len(all_movies) < 9) =>
                  /\ response.status = 400
                  /\ "manifest" \notin response.fields
            /\ "manifest" \in response.fields =>
                  /\ generator.called
                  /\ generator.result.raised = "none"
                  /\ Len(all_movies) >= 9
                  /\ HintKeysOf(manifest) =
                        <<KeyFirstHint, KeySecondHint, KeyThirdHint>>
                  /\ \A h \in 1..3 :
                        LET hint == Lookup(manifest, HintKeysOf(manifest)[h])
                        IN  /\ ValidHint(Inspected(hint))
                            /\ \A j \in 1..3 :
                                  hint.movies[j].title =
                                      all_movies[3 * (h - 1) + j].title
                  /\ \A j, k \in 1..9 :
                        j # k => all_movies[j].title # all_movies[k].title
                  /\ Has(manifest, KeyAnswer)
                  /\ Lookup(manifest, KeyAnswer).caption =
                        generator.request.actor_name
                  /\ Has(manifest, KeyBgAudio)
                  /\ Has(manifest, KeyBgVideo)

\* Of eleven credits one lacks a popularity and the recommender returns 9
\* of the others; the manifest generated from them has the keys of both
\* APIs, and its entries are in another order than they were built in
C25_Witness ==
    /\ GeneratorResponded
    /\ generator.response.status = 200
    /\ "manifest" \in generator.response.fields
    /\ generator.result.total_movies_found = 11
    /\ generator.request.omdb_api_key
    /\ generator.request.tmdb_api_key
    /\ generator.response.manifest[1].key = KeyAnswer
    /\ Len(generator.response.manifest) = 8

=============================================================================
